---- MODULE Spec2Model ----
(***************************************************************************)
(* Model of the exception node family (nuitka/nodes/ExceptionNodes.py) and *)
(* of the dynamic-execution node family (nuitka/nodes/ExecEvalNodes.py):   *)
(* node construction and the compute operations that the optimizer calls  *)
(* with a TraceCollection.                                                 *)
(*                                                                         *)
(* A node is a record of its kind, its named children and its attributes.  *)
(* A compute call takes the node and the trace collection and yields the   *)
(* triple (node, change tag, change description) together with the trace   *)
(* collection as the call left it.  The variable events holds the trace    *)
(* collection operations of the latest compute call, in call order.        *)
(*                                                                         *)
(* The second part is the fixpoint driver over one statement sequence: a   *)
(* pass computes every statement in order with a fresh trace collection,   *)
(* splices what the compute calls return, and the driver stops when a pass *)
(* changes nothing or when the iteration cap is used up.                   *)
(*                                                                         *)
(* The third part is the cache of imported module usage attempts           *)
(* (nuitka/BytecodeCaching.py): the files of the cache directory, the      *)
(* writes and look-ups of the program, and the environment the cache key   *)
(* and the look-up depend on.                                              *)
(*                                                                         *)
(* The fourth part is the derivation of the in-place operation helpers     *)
(* from the binary operation helpers (nuitka/codegen/HelperDefinitions.py) *)
(* with helper names as the strings of characters that they are.           *)
(***************************************************************************)
EXTENDS Integers, Sequences, FiniteSets, TLC

VARIABLES
    node,       \* the node most recently constructed, None when there is none
    ctor,       \* the constructor call that made it: class, arguments, outcome
    result,     \* what the latest compute call on node returned (or raised)
    events,     \* trace collection operations of the latest compute call
    knowledge,  \* trace collection: current trace of every tracked variable
    before,     \* the node as it was when the latest call on it began
    tree,       \* fixpoint driver: the statements of the root statement sequence
    status,     \* fixpoint driver: idle, running, converged, fatal or crashed
    passes,     \* traversals completed in the current run of the driver
    changes,    \* replacements and deletions made by the latest traversal
    run,        \* which run of the driver on this tree: the first or the second
    fixpoint,   \* the tree the first run converged to, kept for the second run
    detached,   \* the nodes taken out of the tree so far, as they were left
    nextId,     \* how many nodes the compute calls have created so far
    cache,      \* module cache directory: the content of every file in it
    env,        \* search path listing, plugin contribution, version, file system
    answer,     \* the latest call on the cache, its arguments and what it returned
    history,    \* the keys written so far: module, source hash, importables hash
    fresh,      \* the latest write while nothing changed since, else no write
    epoch,      \* how many changes the environment has gone through
    writes,     \* how many writes to the cache were made
    helpers_set, \* helper definitions: the set of binary helpers handed over
    inplace,    \* helper definitions: what the derivation returned for that set
    parsed      \* helper definitions: the latest helper name parsed and its types

dvars == <<tree, status, passes, changes, run, fixpoint, detached, nextId>>

cvars == <<cache, env, answer, history, fresh, epoch, writes>>

hvars == <<helpers_set, inplace, parsed>>

vars == <<node, ctor, result, events, knowledge, before, dvars, cvars, hvars>>

----------------------------------------------------------------------------
(* Bounds *)

\* Number of variables the trace collection tracks.
MaxVars == 2

Variables == 1..MaxVars

\* Number of constructor arguments of an exception making call.
MaxArgs == 2

----------------------------------------------------------------------------
(* Expressions.  Python's None is the record None; an expression is a      *)
(* record of its kind and of its identity (its place in the source).       *)

None == [kind |-> "None", id |-> 0]

NoneStr == "None"

BaseException == "BaseException"

ExpressionKinds ==
    { "EXPRESSION_VARIABLE_REF",
      "EXPRESSION_CONSTANT_STR_REF",
      "EXPRESSION_CONSTANT_NONE_REF",
      "EXPRESSION_RAISE_EXCEPTION" }

Expression(kind, id) == [kind |-> kind, id |-> id]

\* The expressions that may be given for the argument with identity id.
Expressions(id) == { Expression(k, id) : k \in ExpressionKinds }

OptionalExpressions(id) == Expressions(id) \cup {None}

\* ExpressionRaiseException.willRaiseAnyException is True; the expression
\* base class answers False.
willRaiseAnyException(expression) ==
    expression.kind = "EXPRESSION_RAISE_EXCEPTION"

\* Constants cannot raise, every other expression may (base class default).
mayRaiseException(expression, exception_type) ==
    expression.kind \in {"EXPRESSION_VARIABLE_REF", "EXPRESSION_RAISE_EXCEPTION"}

isExpressionConstantNoneRef(expression) ==
    expression.kind = "EXPRESSION_CONSTANT_NONE_REF"

\* The string of a constant string expression ("code" stands for it), else None.
getStrValue(expression) ==
    IF expression.kind = "EXPRESSION_CONSTANT_STR_REF" THEN "code" ELSE NoneStr

----------------------------------------------------------------------------
(* Statements made by the node making helpers. *)

StatementExpressionOnly(expression) ==
    [kind |-> "STATEMENT_EXPRESSION_ONLY", expression |-> expression]

StatementsSequence(statements) ==
    [kind |-> "STATEMENTS_SEQUENCE", statements |-> statements]

makeStatementExpressionOnlyReplacementNode(expression, self) ==
    StatementExpressionOnly(expression)

\* One side-effect-only statement per expression given, in order.
makeStatementOnlyNodesFromExpressions(expressions) ==
    LET present == SelectSeq(expressions, LAMBDA e : e # None)
        statements == [i \in 1..Len(present) |-> StatementExpressionOnly(present[i])]
    IN  IF Len(statements) = 0 THEN None
        ELSE IF Len(statements) = 1 THEN statements[1]
        ELSE StatementsSequence(statements)

----------------------------------------------------------------------------
(* TraceCollection: the operations of one compute call and the knowledge. *)

TraceKinds == {"unknown", "assigned"}

Event(op, expression, exception, usage) ==
    [op |-> op, expression |-> expression, exception |-> exception, usage |-> usage]

TraceCollection(k) == [events |-> <<>>, knowledge |-> k]

\* onExpression(expression, allow_none): computes the expression; an absent
\* one is returned without side effects.
onExpression(trace_collection, expression) ==
    IF expression = None THEN trace_collection
    ELSE [trace_collection EXCEPT
            !.events = Append(@, Event("onExpression", expression, NoneStr, {}))]

onExceptionRaiseExit(trace_collection, exception_type) ==
    [trace_collection EXCEPT
        !.events = Append(@, Event("onExceptionRaiseExit", None, exception_type, {}))]

\* The records of the variables of the locals scope, with their traces.
LocalsUsage(trace_collection, locals_scope) ==
    { <<v, trace_collection.knowledge[v]>> : v \in locals_scope }

onLocalsUsage(trace_collection, locals_scope) ==
    [trace_collection EXCEPT
        !.events = Append(@, Event("onLocalsUsage", None, NoneStr,
                                   LocalsUsage(trace_collection, locals_scope)))]

removeAllKnowledge(trace_collection) ==
    [events |-> Append(trace_collection.events,
                       Event("removeAllKnowledge", None, NoneStr, {})),
     knowledge |-> [v \in Variables |-> "unknown"]]

\* What a compute call hands back: the trace collection as the call left
\* it, the node as the call left it, and the returned triple.
Return_Untagged(trace_collection, self, new_node, change_tags, change_desc) ==
    [tc |-> trace_collection, self |-> self, outcome |-> "returned",
     node |-> new_node, tags |-> NoneStr, desc |-> change_desc]

Return(trace_collection, self, new_node, change_tags, change_desc) ==
    [tc |-> trace_collection, self |-> self, outcome |-> "returned",
     node |-> new_node, tags |-> change_tags, desc |-> change_desc]

Raise(trace_collection, self, exception) ==
    [tc |-> trace_collection, self |-> self, outcome |-> exception,
     node |-> None, tags |-> NoneStr, desc |-> NoneStr]

----------------------------------------------------------------------------
(* StatementRaiseException and StatementRaiseExceptionImplicit *)

RaiseKinds == {"STATEMENT_RAISE_EXCEPTION", "STATEMENT_RAISE_EXCEPTION_IMPLICIT"}

\* "assert exception_type is not None"
StatementRaiseException_assertType_Skipped(exception_type) == TRUE

StatementRaiseException_assertType(exception_type) == exception_type # None

\* The assertions of StatementRaiseException.__init__.
StatementRaiseException_asserts_NoTraceCheck(exception_type, exception_value, exception_trace) ==
    /\ StatementRaiseException_assertType(exception_type)
    /\ (exception_type = None => exception_value = None)

StatementRaiseException_asserts(exception_type, exception_value, exception_trace) ==
    /\ StatementRaiseException_assertType(exception_type)
    /\ (exception_type = None => exception_value = None)
    /\ (exception_value = None => exception_trace = None)

StatementRaiseException(kind, exception_type, exception_value, exception_trace, exception_cause) ==
    [kind |-> kind,
     exception_type |-> exception_type,
     exception_value |-> exception_value,
     exception_trace |-> exception_trace,
     exception_cause |-> exception_cause,
     reraise_finally |-> FALSE]

\* "x is not None and x.willRaiseAnyException()"
raisesImplicitly_Never(expression) == FALSE

raisesImplicitly(expression) ==
    expression # None /\ willRaiseAnyException(expression)

\* "# TODO: Limit by type." trace_collection.onExceptionRaiseExit(BaseException)
StatementRaiseException_exit_Skipped(trace_collection) == trace_collection

StatementRaiseException_exit(trace_collection) ==
    onExceptionRaiseExit(trace_collection, BaseException)

\* Lines 107-109: the replacement when building the type raises.
StatementRaiseException_typeReplacement_WithValue(exception_type, self) ==
    makeStatementOnlyNodesFromExpressions(<<exception_type, self.exception_value>>)

StatementRaiseException_typeReplacement(exception_type, self) ==
    makeStatementExpressionOnlyReplacementNode(exception_type, self)

StatementRaiseException_computeStatement(self, trace_collection) ==
    LET exception_type == self.exception_type
        tc1 == StatementRaiseException_exit(onExpression(trace_collection, exception_type))
    IN
    IF raisesImplicitly(exception_type) THEN
        Return(tc1, self,
               StatementRaiseException_typeReplacement(exception_type, self),
               "new_raise",
               "Explicit raise already raises implicitly building exception type.")
    ELSE
    LET exception_value == self.exception_value
        tc2 == onExpression(tc1, exception_value)
    IN
    IF raisesImplicitly(exception_value) THEN
        Return(tc2, self,
               makeStatementOnlyNodesFromExpressions(<<exception_type, exception_value>>),
               "new_raise",
               "Explicit raise already raises implicitly building exception value.")
    ELSE
    LET exception_trace == self.exception_trace
        tc3 == onExpression(tc2, exception_trace)
    IN
    IF raisesImplicitly(exception_trace) THEN
        Return(tc3, self,
               makeStatementOnlyNodesFromExpressions(
                   <<exception_type, exception_value, exception_trace>>),
               "new_raise",
               "Explicit raise already raises implicitly building exception traceback.")
    ELSE
    LET exception_cause == self.exception_cause
        tc4 == onExpression(tc3, exception_cause)
    IN
    IF raisesImplicitly(exception_cause) THEN
        Return(tc4, self,
               makeStatementOnlyNodesFromExpressions(<<exception_type, exception_cause>>),
               "new_raise",
               "\nExplicit raise already raises implicitly building exception cause.")
    ELSE
        Return(tc4, self, self, NoneStr, NoneStr)

\* needsFrame() of StatementRaiseException; StatementRaiseExceptionImplicit
\* inherits it.
StatementRaiseException_needsFrame_ExplicitOnly(self) ==
    self.kind = "STATEMENT_RAISE_EXCEPTION"

StatementRaiseException_needsFrame(self) == TRUE

\* getStatementNiceName() of the two classes.
StatementRaiseException_getStatementNiceName(self) ==
    IF self.kind = "STATEMENT_RAISE_EXCEPTION_IMPLICIT"
    THEN "implicit exception raise statement"
    ELSE "exception raise statement"

----------------------------------------------------------------------------
(* StatementExec *)

\* checkers = {"globals_arg": ..., "locals_arg": ...}
StatementExec_checkers_GlobalsOnly == {"globals_arg"}

StatementExec_checkers == {"globals_arg", "locals_arg"}

convertNoneConstantToNone(value) ==
    IF value = None \/ isExpressionConstantNoneRef(value) THEN None ELSE value

\* The children having base class passes a value through the checker
\* registered for the child's name.
StatementExec_checked(name, value) ==
    IF name \in StatementExec_checkers THEN convertNoneConstantToNone(value) ELSE value

StatementExec(source_code, globals_arg, locals_arg) ==
    [kind |-> "STATEMENT_EXEC",
     source |-> StatementExec_checked("source", source_code),
     globals_arg |-> StatementExec_checked("globals_arg", globals_arg),
     locals_arg |-> StatementExec_checked("locals_arg", locals_arg)]

\* "if x.mayRaiseException(BaseException): onExceptionRaiseExit(BaseException)"
StatementExec_childExit_Always(trace_collection, expression) ==
    onExceptionRaiseExit(trace_collection, BaseException)

StatementExec_childExit(trace_collection, expression) ==
    IF expression # None /\ mayRaiseException(expression, BaseException)
    THEN onExceptionRaiseExit(trace_collection, BaseException)
    ELSE trace_collection

\* The exit recorded once all three children are computed.
StatementExec_exit_Skipped(trace_collection) == trace_collection

StatementExec_exit(trace_collection) ==
    onExceptionRaiseExit(trace_collection, BaseException)

\* "result = source_code": the source expression itself is returned.
StatementExec_sourceReplacement(source_code) == source_code

StatementExec_computeStatement(self, trace_collection) ==
    LET source_code == self.source
        tc1 == StatementExec_childExit(onExpression(trace_collection, source_code),
                                       source_code)
    IN
    IF willRaiseAnyException(source_code) THEN
        Return(tc1, self,
               StatementExec_sourceReplacement(source_code),
               "new_raise",
               "Exec statement raises implicitly when determining source code argument.")
    ELSE
    LET globals_arg == self.globals_arg
        tc2 == StatementExec_childExit(onExpression(tc1, globals_arg), globals_arg)
    IN
    IF raisesImplicitly(globals_arg) THEN
        Return(tc2, self,
               makeStatementOnlyNodesFromExpressions(<<source_code, globals_arg>>),
               "new_raise",
               "Exec statement raises implicitly when determining globals argument.")
    ELSE
    LET locals_arg == self.locals_arg
        tc3 == StatementExec_childExit(onExpression(tc2, locals_arg), locals_arg)
    IN
    IF raisesImplicitly(locals_arg) THEN
        Return(tc3, self,
               makeStatementOnlyNodesFromExpressions(
                   <<source_code, globals_arg, locals_arg>>),
               "new_raise",
               "Exec statement raises implicitly when determining locals argument.")
    ELSE
    LET tc4 == StatementExec_exit(tc3)
        str_value == getStrValue(self.source)
    IN
    IF str_value # NoneStr THEN
        Return(tc4, self, self, NoneStr, NoneStr)
    ELSE
        Return(tc4, self, self, NoneStr, NoneStr)

----------------------------------------------------------------------------
(* ExpressionBuiltinExec *)

\* The attributes are the fields of the record; the parent of a node in
\* the tree is the statement that holds it.
ExpressionBuiltinExec(in_early_closure, source_code, globals_arg, locals_arg) ==
    [kind |-> "EXPRESSION_BUILTIN_EXEC",
     source_code |-> source_code,
     globals_arg |-> globals_arg,
     locals_arg |-> locals_arg,
     in_early_closure |-> in_early_closure,
     parent |-> "statement"]

hasattr(self, name) == name \in DOMAIN self

\* "del self.parent"
delattr_Kept(self, name) == self

delattr(self, name) == [f \in DOMAIN self \ {name} |-> self[f]]

\* The statement whose expression is dropped.
EnclosingStatement(self) == StatementExpressionOnly(self)

\* "if self.early_closure:" reads an attribute that __init__ never sets
\* and __slots__ does not name.
ExpressionBuiltinExec_computeExpressionDrop(self, statement, trace_collection) ==
    IF ~hasattr(self, "early_closure") THEN
        Raise(trace_collection, self, "AttributeError")
    ELSE IF self.early_closure THEN
        Return(trace_collection, delattr(self, "parent"),
               StatementExec(self.source_code, self.globals_arg, self.locals_arg),
               "new_statements",
               "Replaced built-in exec call to exec statement in early closure context.")
    ELSE
        Return(trace_collection, self, statement, NoneStr, NoneStr)

----------------------------------------------------------------------------
(* StatementLocalsDictSync *)

\* previous_traces and variable_traces: None, or the records of a query.
NoTraces == [isNone |-> TRUE, items |-> {}]

Traces(items) == [isNone |-> FALSE, items |-> items]

ProviderKinds == {"COMPILED_PYTHON_MODULE", "EXPRESSION_FUNCTION_BODY"}

\* provider is what getParentVariableProvider() finds for the node.
StatementLocalsDictSync(locals_scope, locals_arg, provider) ==
    [kind |-> "STATEMENT_LOCALS_DICT_SYNC",
     locals_arg |-> locals_arg,
     locals_scope |-> locals_scope,
     previous_traces |-> NoTraces,
     variable_traces |-> NoTraces,
     provider |-> provider]

\* "if not self.previous_traces:"
StatementLocalsDictSync_noTraces_Never(previous_traces) == FALSE

StatementLocalsDictSync_noTraces(previous_traces) == previous_traces.items = {}

isCompiledPythonModule(provider) == provider = "COMPILED_PYTHON_MODULE"

\* "provider = self.getParentVariableProvider()
\*  if provider.isCompiledPythonModule():"
StatementLocalsDictSync_underModule_Never(self) == FALSE

StatementLocalsDictSync_underModule(self) == isCompiledPythonModule(self.provider)

\* Computes the child; a child that raises implicitly replaces the statement.
computeStatementSubExpressions(self, trace_collection) ==
    LET expression == self.locals_arg
        tc1 == onExpression(trace_collection, expression)
    IN  IF willRaiseAnyException(expression) THEN
            Return(tc1, self,
                   makeStatementOnlyNodesFromExpressions(<<expression>>),
                   "new_raise",
                   "For locals dict sync statement the child expression 'locals_arg' will raise.")
        ELSE
            Return(tc1, self, self, NoneStr, NoneStr)

\* Lines 291-292: removeAllKnowledge(), then the second onLocalsUsage query.
StatementLocalsDictSync_reseed_QueryFirst(self, trace_collection) ==
    LET tc1 == onLocalsUsage(trace_collection, self.locals_scope)
        variable_traces == Traces(LocalsUsage(trace_collection, self.locals_scope))
        tc2 == removeAllKnowledge(tc1)
    IN  [tc |-> tc2, self |-> [self EXCEPT !.variable_traces = variable_traces]]

StatementLocalsDictSync_reseed(self, trace_collection) ==
    LET tc1 == removeAllKnowledge(trace_collection)
        variable_traces == Traces(LocalsUsage(tc1, self.locals_scope))
        tc2 == onLocalsUsage(tc1, self.locals_scope)
    IN  [tc |-> tc2, self |-> [self EXCEPT !.variable_traces = variable_traces]]

StatementLocalsDictSync_computeStatement(self, trace_collection) ==
    LET sub == computeStatementSubExpressions(self, trace_collection) IN
    IF sub.node # self THEN
        sub
    ELSE
    IF StatementLocalsDictSync_underModule(self) THEN
        Return(sub.tc, self, None, "new_statements",
               "Removed sync back to locals without locals.")
    ELSE
    LET previous_traces == Traces(LocalsUsage(sub.tc, self.locals_scope))
        tc2 == onLocalsUsage(sub.tc, self.locals_scope)
        self2 == [self EXCEPT !.previous_traces = previous_traces]
    IN
    IF StatementLocalsDictSync_noTraces(previous_traces) THEN
        Return(tc2, self2, None, "new_statements",
               "Removed sync back to locals without locals.")
    ELSE
    LET seeded == StatementLocalsDictSync_reseed(self2, tc2) IN
        Return(seeded.tc, seeded.self, seeded.self, NoneStr, NoneStr)

----------------------------------------------------------------------------
(* StatementReraiseException *)

StatementReraiseException == [kind |-> "STATEMENT_RERAISE_EXCEPTION"]

StatementReraiseException_computeStatement_NoExit(self, trace_collection) ==
    Return(trace_collection, self, self, NoneStr, NoneStr)

StatementReraiseException_computeStatement(self, trace_collection) ==
    Return(onExceptionRaiseExit(trace_collection, BaseException),
           self, self, NoneStr, NoneStr)

----------------------------------------------------------------------------
(* ExpressionRaiseException *)

ExpressionRaiseException(exception_type, exception_value) ==
    [kind |-> "EXPRESSION_RAISE_EXCEPTION",
     exception_type |-> exception_type,
     exception_value |-> exception_value,
     parent |-> "statement"]

ExpressionRaiseException_computeExpression(self, trace_collection) ==
    Return(onExceptionRaiseExit(trace_collection, BaseException),
           self, self, NoneStr, NoneStr)

\* The arguments asStatement gives to StatementRaiseExceptionImplicit:
\* exception_type, exception_value, exception_trace, exception_cause.
ExpressionRaiseException_asStatement_args_ValueAsCause(self) ==
    <<self.exception_type, None, None, self.exception_value>>

ExpressionRaiseException_asStatement_args(self) ==
    <<self.exception_type, self.exception_value, None, None>>

ExpressionRaiseException_asStatement(self) ==
    LET args == ExpressionRaiseException_asStatement_args(self) IN
    StatementRaiseException("STATEMENT_RAISE_EXCEPTION_IMPLICIT",
                            args[1], args[2], args[3], args[4])

\* "result = self.asStatement(); del self.parent"
ExpressionRaiseException_computeExpressionDrop(self, statement, trace_collection) ==
    LET args == ExpressionRaiseException_asStatement_args(self) IN
    IF ~StatementRaiseException_asserts(args[1], args[2], args[3]) THEN
        Raise(trace_collection, self, "AssertionError")
    ELSE IF ~hasattr(self, "parent") THEN
        Raise(trace_collection, self, "AttributeError")
    ELSE
        Return(trace_collection, delattr(self, "parent"),
               ExpressionRaiseException_asStatement(self),
               "new_raise",
               "Propagated implicit raise expression to raise statement.")

----------------------------------------------------------------------------
(* ExpressionBuiltinExecfile *)

ExpressionBuiltinExecfile(in_class_body, source_code, globals_arg, locals_arg) ==
    [kind |-> "EXPRESSION_BUILTIN_EXECFILE",
     source_code |-> source_code,
     globals_arg |-> globals_arg,
     locals_arg |-> locals_arg,
     in_class_body |-> in_class_body,
     parent |-> "statement"]

ExpressionBuiltinExecfile_computeExpression_NoExit(self, trace_collection) ==
    Return(trace_collection, self, self, NoneStr, NoneStr)

ExpressionBuiltinExecfile_computeExpression(self, trace_collection) ==
    Return(onExceptionRaiseExit(trace_collection, BaseException),
           self, self, NoneStr, NoneStr)

\* The rewrite without the test of in_class_body.
ExpressionBuiltinExecfile_computeExpressionDrop_Unconditional(self, statement, trace_collection) ==
    IF ~hasattr(self, "parent") THEN
        Raise(trace_collection, self, "AttributeError")
    ELSE
        Return(trace_collection, delattr(self, "parent"),
               StatementExec(self.source_code, self.globals_arg, self.locals_arg),
               "new_statements",
               "Changed 'execfile' with unused result to 'exec' on class level.")

ExpressionBuiltinExecfile_computeExpressionDrop(self, statement, trace_collection) ==
    IF self.in_class_body THEN
        IF ~hasattr(self, "parent") THEN
            Raise(trace_collection, self, "AttributeError")
        ELSE
            Return(trace_collection, delattr(self, "parent"),
                   StatementExec(self.source_code, self.globals_arg, self.locals_arg),
                   "new_statements",
                   "Changed 'execfile' with unused result to 'exec' on class level.")
    ELSE
        Return(trace_collection, self, statement, NoneStr, NoneStr)

----------------------------------------------------------------------------
(* ExpressionBuiltinEval *)

ExpressionBuiltinEval(source_code, globals_arg, locals_arg) ==
    [kind |-> "EXPRESSION_BUILTIN_EVAL",
     source_code |-> source_code,
     globals_arg |-> globals_arg,
     locals_arg |-> locals_arg,
     parent |-> "statement"]

ExpressionBuiltinEval_computeExpression_WithExit(self, trace_collection) ==
    Return(onExceptionRaiseExit(trace_collection, BaseException),
           self, self, NoneStr, NoneStr)

\* "return self, None, None"
ExpressionBuiltinEval_computeExpression(self, trace_collection) ==
    Return(trace_collection, self, self, NoneStr, NoneStr)

----------------------------------------------------------------------------
(* ExpressionBuiltinCompile *)

ExpressionBuiltinCompile(source_code, filename, mode, flags, dont_inherit, optimize) ==
    [kind |-> "EXPRESSION_BUILTIN_COMPILE",
     source |-> source_code,
     filename |-> filename,
     mode |-> mode,
     flags |-> flags,
     dont_inherit |-> dont_inherit,
     optimize |-> optimize,
     parent |-> "statement"]

ExpressionBuiltinCompile_computeExpression_NoExit(self, trace_collection) ==
    Return(trace_collection, self, self, NoneStr, NoneStr)

ExpressionBuiltinCompile_computeExpression(self, trace_collection) ==
    Return(onExceptionRaiseExit(trace_collection, BaseException),
           self, self, NoneStr, NoneStr)

----------------------------------------------------------------------------
(* ExpressionBuiltinMakeException and ExpressionBuiltinMakeExceptionImportError *)

\* The exception classes a caller may ask about.
ExceptionClasses == {BaseException, "ValueError"}

ExpressionBuiltinMakeException(exception_name, args) ==
    [kind |-> "EXPRESSION_BUILTIN_MAKE_EXCEPTION",
     args |-> args,
     exception_name |-> exception_name,
     parent |-> "statement"]

ExpressionBuiltinMakeException_computeExpression(self, trace_collection) ==
    Return(trace_collection, self, self, NoneStr, NoneStr)

ExpressionBuiltinMakeException_mayRaiseException_Always(self, exception_type) == TRUE

\* "for arg in self.subnode_args: if arg.mayRaiseException(exception_type):
\*  return True" and "return False" after the loop.
ExpressionBuiltinMakeException_mayRaiseException(self, exception_type) ==
    \E i \in 1..Len(self.args) : mayRaiseException(self.args[i], exception_type)

ExpressionBuiltinMakeExceptionImportError(args, name, path) ==
    [kind |-> "EXPRESSION_BUILTIN_MAKE_EXCEPTION_IMPORT_ERROR",
     args |-> args,
     name |-> name,
     path |-> path,
     parent |-> "statement"]

ExpressionBuiltinMakeExceptionImportError_computeExpression(self, trace_collection) ==
    Return(trace_collection, self, self, NoneStr, NoneStr)

\* The loop extended to the name and path children.
ExpressionBuiltinMakeExceptionImportError_mayRaiseException_AllChildren(self, exception_type) ==
    \/ \E i \in 1..Len(self.args) : mayRaiseException(self.args[i], exception_type)
    \/ self.name # None /\ mayRaiseException(self.name, exception_type)
    \/ self.path # None /\ mayRaiseException(self.path, exception_type)

ExpressionBuiltinMakeExceptionImportError_mayRaiseException(self, exception_type) ==
    \E i \in 1..Len(self.args) : mayRaiseException(self.args[i], exception_type)

----------------------------------------------------------------------------
(* The state machine *)

NoCtor == [cls |-> NoneStr, args |-> <<>>, flag |-> FALSE, outcome |-> NoneStr]

\* value is the answer of a query such as mayRaiseException ("True" or
\* "False"), of is the argument the query was given.
NoResult == [call |-> NoneStr, outcome |-> NoneStr,
             node |-> None, tags |-> NoneStr, desc |-> NoneStr,
             of |-> NoneStr, value |-> NoneStr]

Result(call, r) ==
    [call |-> call, outcome |-> r.outcome,
     node |-> r.node, tags |-> r.tags, desc |-> r.desc,
     of |-> NoneStr, value |-> NoneStr]

Bool(b) == IF b THEN "True" ELSE "False"

Answer(call, argument, b) ==
    [call |-> call, outcome |-> "returned",
     node |-> None, tags |-> NoneStr, desc |-> NoneStr,
     of |-> argument, value |-> Bool(b)]

\* The cache is not used while the nodes are computed.
NoEnv == [listing |-> {}, contribution |-> NoneStr, version |-> NoneStr, folds |-> FALSE]

NoAnswer == [call |-> NoneStr, module_name |-> NoneStr, source_code |-> NoneStr,
             isNone |-> TRUE, items |-> <<>>]

NoWrite == [module_name |-> NoneStr, source_code |-> NoneStr, used |-> <<>>]

\* The helper definitions are made when their module is imported, before
\* any node exists.
NotDerived == [called |-> FALSE, isNone |-> TRUE, names |-> <<>>]

NotParsed == [helper_name |-> <<>>, types |-> <<>>]

HelpersUnused ==
    /\ helpers_set = [isNone |-> TRUE, names |-> <<>>]
    /\ inplace = NotDerived
    /\ parsed = NotParsed

CacheUnused ==
    /\ cache = <<>>
    /\ env = NoEnv
    /\ answer = NoAnswer
    /\ history = {}
    /\ fresh = NoWrite
    /\ epoch = 0
    /\ writes = 0

Init ==
    /\ node = None
    /\ ctor = NoCtor
    /\ result = NoResult
    /\ events = <<>>
    /\ knowledge \in [Variables -> TraceKinds]
    /\ before = None
    /\ tree = <<>>
    /\ status = "idle"
    /\ passes = 0
    /\ changes = 0
    /\ run = 1
    /\ fixpoint = <<>>
    /\ detached = {}
    /\ nextId = 0
    /\ CacheUnused
    /\ HelpersUnused

\* A constructor call: the node it made, or none and the error it raised.
\* A behaviour follows one node from its construction through its compute
\* calls; a failed assertion aborts the compilation.
Constructed(cls, args, flag, ok, new_node) ==
    /\ ctor' = [cls |-> cls, args |-> args, flag |-> flag,
                outcome |-> IF ok THEN "constructed" ELSE "AssertionError"]
    /\ node' = IF ok THEN new_node ELSE None
    /\ result' = NoResult
    /\ events' = <<>>
    /\ before' = None
    /\ UNCHANGED knowledge
    /\ UNCHANGED dvars
    /\ UNCHANGED <<cvars, hvars>>

\* A compute call on node.
Computed(call, r) ==
    /\ result' = Result(call, r)
    /\ events' = r.tc.events
    /\ knowledge' = r.tc.knowledge
    /\ node' = r.self
    /\ before' = node
    /\ UNCHANGED ctor
    /\ UNCHANGED dvars
    /\ UNCHANGED <<cvars, hvars>>

\* A query on node: it reads the node and leaves everything as it is.
Queried(call, argument, b) ==
    /\ result' = Answer(call, argument, b)
    /\ events' = <<>>
    /\ before' = node
    /\ UNCHANGED <<node, ctor, knowledge>>
    /\ UNCHANGED dvars
    /\ UNCHANGED <<cvars, hvars>>

New_StatementRaiseException ==
    \E kind \in RaiseKinds,
       exception_type \in OptionalExpressions(1),
       exception_value \in OptionalExpressions(2),
       exception_trace \in OptionalExpressions(3),
       exception_cause \in OptionalExpressions(4) :
        /\ ctor = NoCtor
        /\ Constructed(kind,
                    <<exception_type, exception_value, exception_trace, exception_cause>>,
                    FALSE,
                    StatementRaiseException_asserts(exception_type, exception_value,
                                                    exception_trace),
                    StatementRaiseException(kind, exception_type, exception_value,
                                            exception_trace, exception_cause))

Call_StatementRaiseException_computeStatement ==
    /\ node.kind \in RaiseKinds
    /\ Computed("computeStatement",
                StatementRaiseException_computeStatement(node, TraceCollection(knowledge)))

Call_StatementRaiseException_needsFrame ==
    /\ node.kind \in RaiseKinds
    /\ Queried("needsFrame", NoneStr, StatementRaiseException_needsFrame(node))

New_StatementExec ==
    \E source_code \in Expressions(1),
       globals_arg \in OptionalExpressions(2),
       locals_arg \in OptionalExpressions(3) :
        /\ ctor = NoCtor
        /\ Constructed("STATEMENT_EXEC", <<source_code, globals_arg, locals_arg>>, FALSE,
                    TRUE, StatementExec(source_code, globals_arg, locals_arg))

Call_StatementExec_computeStatement ==
    /\ node.kind = "STATEMENT_EXEC"
    /\ Computed("computeStatement",
                StatementExec_computeStatement(node, TraceCollection(knowledge)))

New_ExpressionBuiltinExec ==
    \E in_early_closure \in BOOLEAN,
       source_code \in Expressions(1),
       globals_arg \in OptionalExpressions(2),
       locals_arg \in OptionalExpressions(3) :
        /\ ctor = NoCtor
        /\ Constructed("EXPRESSION_BUILTIN_EXEC", <<source_code, globals_arg, locals_arg>>,
                    in_early_closure, TRUE,
                    ExpressionBuiltinExec(in_early_closure, source_code,
                                          globals_arg, locals_arg))

Call_ExpressionBuiltinExec_computeExpressionDrop ==
    /\ node.kind = "EXPRESSION_BUILTIN_EXEC"
    /\ Computed("computeExpressionDrop",
                ExpressionBuiltinExec_computeExpressionDrop(
                    node, EnclosingStatement(node), TraceCollection(knowledge)))

New_StatementLocalsDictSync ==
    \E locals_scope \in SUBSET Variables,
       locals_arg \in Expressions(1),
       provider \in ProviderKinds :
        /\ ctor = NoCtor
        /\ Constructed("STATEMENT_LOCALS_DICT_SYNC", <<locals_arg>>, FALSE, TRUE,
                    StatementLocalsDictSync(locals_scope, locals_arg, provider))

Call_StatementLocalsDictSync_computeStatement ==
    /\ node.kind = "STATEMENT_LOCALS_DICT_SYNC"
    /\ Computed("computeStatement",
                StatementLocalsDictSync_computeStatement(node, TraceCollection(knowledge)))

New_StatementReraiseException ==
    /\ ctor = NoCtor
    /\ Constructed("STATEMENT_RERAISE_EXCEPTION", <<>>, FALSE, TRUE,
                   StatementReraiseException)

Call_StatementReraiseException_computeStatement ==
    /\ node.kind = "STATEMENT_RERAISE_EXCEPTION"
    /\ Computed("computeStatement",
                StatementReraiseException_computeStatement(node, TraceCollection(knowledge)))

New_ExpressionRaiseException ==
    \E exception_type \in Expressions(1),
       exception_value \in Expressions(2) :
        /\ ctor = NoCtor
        /\ Constructed("EXPRESSION_RAISE_EXCEPTION", <<exception_type, exception_value>>,
                       FALSE, TRUE,
                       ExpressionRaiseException(exception_type, exception_value))

Call_ExpressionRaiseException_computeExpression ==
    /\ node.kind = "EXPRESSION_RAISE_EXCEPTION"
    /\ Computed("computeExpression",
                ExpressionRaiseException_computeExpression(node, TraceCollection(knowledge)))

\* The statement given to computeExpressionDrop is the parent of the node.
Call_ExpressionRaiseException_computeExpressionDrop ==
    /\ node.kind = "EXPRESSION_RAISE_EXCEPTION"
    /\ hasattr(node, "parent")
    /\ Computed("computeExpressionDrop",
                ExpressionRaiseException_computeExpressionDrop(
                    node, EnclosingStatement(node), TraceCollection(knowledge)))

New_ExpressionBuiltinExecfile ==
    \E in_class_body \in BOOLEAN,
       source_code \in Expressions(1),
       globals_arg \in OptionalExpressions(2),
       locals_arg \in OptionalExpressions(3) :
        /\ ctor = NoCtor
        /\ Constructed("EXPRESSION_BUILTIN_EXECFILE",
                       <<source_code, globals_arg, locals_arg>>, in_class_body, TRUE,
                       ExpressionBuiltinExecfile(in_class_body, source_code,
                                                 globals_arg, locals_arg))

Call_ExpressionBuiltinExecfile_computeExpression ==
    /\ node.kind = "EXPRESSION_BUILTIN_EXECFILE"
    /\ Computed("computeExpression",
                ExpressionBuiltinExecfile_computeExpression(node, TraceCollection(knowledge)))

Call_ExpressionBuiltinExecfile_computeExpressionDrop ==
    /\ node.kind = "EXPRESSION_BUILTIN_EXECFILE"
    /\ hasattr(node, "parent")
    /\ Computed("computeExpressionDrop",
                ExpressionBuiltinExecfile_computeExpressionDrop(
                    node, EnclosingStatement(node), TraceCollection(knowledge)))

New_ExpressionBuiltinEval ==
    \E source_code \in Expressions(1),
       globals_arg \in OptionalExpressions(2),
       locals_arg \in OptionalExpressions(3) :
        /\ ctor = NoCtor
        /\ Constructed("EXPRESSION_BUILTIN_EVAL", <<source_code, globals_arg, locals_arg>>,
                       FALSE, TRUE,
                       ExpressionBuiltinEval(source_code, globals_arg, locals_arg))

Call_ExpressionBuiltinEval_computeExpression ==
    /\ node.kind = "EXPRESSION_BUILTIN_EVAL"
    /\ Computed("computeExpression",
                ExpressionBuiltinEval_computeExpression(node, TraceCollection(knowledge)))

\* The optional children are given or not; filename and mode are constants.
New_ExpressionBuiltinCompile ==
    \E source_code \in Expressions(1),
       flags \in {None, Expression("EXPRESSION_VARIABLE_REF", 4)},
       dont_inherit \in {None, Expression("EXPRESSION_VARIABLE_REF", 5)},
       optimize \in {None, Expression("EXPRESSION_VARIABLE_REF", 6)} :
        /\ ctor = NoCtor
        /\ Constructed("EXPRESSION_BUILTIN_COMPILE",
                       <<source_code, Expression("EXPRESSION_CONSTANT_STR_REF", 2),
                         Expression("EXPRESSION_CONSTANT_STR_REF", 3),
                         flags, dont_inherit, optimize>>,
                       FALSE, TRUE,
                       ExpressionBuiltinCompile(
                           source_code, Expression("EXPRESSION_CONSTANT_STR_REF", 2),
                           Expression("EXPRESSION_CONSTANT_STR_REF", 3),
                           flags, dont_inherit, optimize))

Call_ExpressionBuiltinCompile_computeExpression ==
    /\ node.kind = "EXPRESSION_BUILTIN_COMPILE"
    /\ Computed("computeExpression",
                ExpressionBuiltinCompile_computeExpression(node, TraceCollection(knowledge)))

\* The argument tuples of an exception making call: variable references
\* and string constants.
ArgumentTuples ==
    UNION { [1..n -> {"EXPRESSION_VARIABLE_REF", "EXPRESSION_CONSTANT_STR_REF"}]
            : n \in 0..MaxArgs }

Arguments(kinds) == [i \in 1..Len(kinds) |-> Expression(kinds[i], i)]

New_ExpressionBuiltinMakeException ==
    \E kinds \in ArgumentTuples :
        /\ ctor = NoCtor
        /\ Constructed("EXPRESSION_BUILTIN_MAKE_EXCEPTION", Arguments(kinds), FALSE, TRUE,
                       ExpressionBuiltinMakeException("ValueError", Arguments(kinds)))

Call_ExpressionBuiltinMakeException_computeExpression ==
    /\ node.kind = "EXPRESSION_BUILTIN_MAKE_EXCEPTION"
    /\ Computed("computeExpression",
                ExpressionBuiltinMakeException_computeExpression(
                    node, TraceCollection(knowledge)))

Call_ExpressionBuiltinMakeException_mayRaiseException ==
    \E exception_type \in ExceptionClasses :
        /\ node.kind = "EXPRESSION_BUILTIN_MAKE_EXCEPTION"
        /\ Queried("mayRaiseException", exception_type,
                   ExpressionBuiltinMakeException_mayRaiseException(node, exception_type))

\* args is the constructor's first argument; name and path follow it.
New_ExpressionBuiltinMakeExceptionImportError ==
    \E kinds \in ArgumentTuples,
       name \in {None, Expression("EXPRESSION_VARIABLE_REF", MaxArgs + 1)},
       path \in {None, Expression("EXPRESSION_VARIABLE_REF", MaxArgs + 2)} :
        /\ ctor = NoCtor
        /\ Constructed("EXPRESSION_BUILTIN_MAKE_EXCEPTION_IMPORT_ERROR",
                       <<Arguments(kinds), name, path>>, FALSE, TRUE,
                       ExpressionBuiltinMakeExceptionImportError(Arguments(kinds), name, path))

Call_ExpressionBuiltinMakeExceptionImportError_computeExpression ==
    /\ node.kind = "EXPRESSION_BUILTIN_MAKE_EXCEPTION_IMPORT_ERROR"
    /\ Computed("computeExpression",
                ExpressionBuiltinMakeExceptionImportError_computeExpression(
                    node, TraceCollection(knowledge)))

Call_ExpressionBuiltinMakeExceptionImportError_mayRaiseException ==
    \E exception_type \in ExceptionClasses :
        /\ node.kind = "EXPRESSION_BUILTIN_MAKE_EXCEPTION_IMPORT_ERROR"
        /\ Queried("mayRaiseException", exception_type,
                   ExpressionBuiltinMakeExceptionImportError_mayRaiseException(
                       node, exception_type))

Next ==
    \/ New_StatementRaiseException
    \/ Call_StatementRaiseException_computeStatement
    \/ Call_StatementRaiseException_needsFrame
    \/ New_StatementExec
    \/ Call_StatementExec_computeStatement
    \/ New_ExpressionBuiltinExec
    \/ Call_ExpressionBuiltinExec_computeExpressionDrop
    \/ New_StatementLocalsDictSync
    \/ Call_StatementLocalsDictSync_computeStatement
    \/ New_StatementReraiseException
    \/ Call_StatementReraiseException_computeStatement
    \/ New_ExpressionRaiseException
    \/ Call_ExpressionRaiseException_computeExpression
    \/ Call_ExpressionRaiseException_computeExpressionDrop
    \/ New_ExpressionBuiltinExecfile
    \/ Call_ExpressionBuiltinExecfile_computeExpression
    \/ Call_ExpressionBuiltinExecfile_computeExpressionDrop
    \/ New_ExpressionBuiltinEval
    \/ Call_ExpressionBuiltinEval_computeExpression
    \/ New_ExpressionBuiltinCompile
    \/ Call_ExpressionBuiltinCompile_computeExpression
    \/ New_ExpressionBuiltinMakeException
    \/ Call_ExpressionBuiltinMakeException_computeExpression
    \/ Call_ExpressionBuiltinMakeException_mayRaiseException
    \/ New_ExpressionBuiltinMakeExceptionImportError
    \/ Call_ExpressionBuiltinMakeExceptionImportError_computeExpression
    \/ Call_ExpressionBuiltinMakeExceptionImportError_mayRaiseException

Spec == Init /\ [][Next]_vars

----------------------------------------------------------------------------
(* Trees.  A node of a tree carries its identity (id) and its parent link  *)
(* (parent, the id of the node that holds it); the root statement sequence *)
(* has the identity 0.  The nodes of the tree the builder hands over are   *)
(* numbered by their place, the nodes made by compute calls are numbered   *)
(* -1, -2, ... in the order of their creation.                             *)

\* Number of statements of the root statement sequence the builder made.
MaxStatements == 2

\* The named children of the node kinds, in evaluation order per kind.
ChildSlots ==
    { "exception_type", "exception_value", "exception_trace", "exception_cause",
      "source", "source_code", "globals_arg", "locals_arg", "expression" }

SlotNumber(name) ==
    IF name \in {"exception_type", "source", "source_code", "expression"} THEN 1
    ELSE IF name \in {"exception_value", "globals_arg"} THEN 2
    ELSE IF name \in {"exception_trace", "locals_arg"} THEN 3
    ELSE 4

setattr(self, name, value) ==
    [f \in DOMAIN self \cup {name} |-> IF f = name THEN value ELSE self[f]]

\* "def finalize(self): del self.parent"
finalize(self) == delattr(self, "parent")

\* The builder's result for one node: identities and parent links are set
\* for the node and for everything below it.
RECURSIVE Built(_, _, _)
Built(n, id, parent) ==
    [f \in DOMAIN n \cup {"id", "parent"} |->
        IF f = "id" THEN id
        ELSE IF f = "parent" THEN parent
        ELSE IF f \in ChildSlots /\ n[f] # None
             THEN Built(n[f], 10 * id + SlotNumber(f), id)
        ELSE n[f]]

VariableRef == Expression("EXPRESSION_VARIABLE_REF", 0)

StrRef == Expression("EXPRESSION_CONSTANT_STR_REF", 0)

\* A raise expression, and one whose exception type is a raise expression.
RaiseRef == ExpressionRaiseException(VariableRef, VariableRef)

NestedRaiseRef == ExpressionRaiseException(RaiseRef, VariableRef)

\* The statements the root statement sequence is built from.
BuiltStatements ==
    { StatementRaiseException("STATEMENT_RAISE_EXCEPTION", VariableRef, None, None, None),
      StatementRaiseException("STATEMENT_RAISE_EXCEPTION", RaiseRef, VariableRef, None, None),
      StatementRaiseException("STATEMENT_RAISE_EXCEPTION", VariableRef, VariableRef, None,
                              RaiseRef),
      StatementReraiseException,
      StatementExec(StrRef, None, None),
      StatementExec(RaiseRef, None, None),
      StatementLocalsDictSync({1}, VariableRef, "EXPRESSION_FUNCTION_BODY"),
      StatementLocalsDictSync({1}, VariableRef, "COMPILED_PYTHON_MODULE"),
      StatementExpressionOnly(ExpressionBuiltinExecfile(TRUE, StrRef, None, None)),
      StatementExpressionOnly(ExpressionBuiltinExec(TRUE, StrRef, None, None)),
      StatementExpressionOnly(NestedRaiseRef),
      StatementExpressionOnly(VariableRef) }

BuiltTrees ==
    UNION { { [k \in 1..n |-> Built(t[k], k, 0)] : t \in [1..n -> BuiltStatements] }
            : n \in 1..MaxStatements }

----------------------------------------------------------------------------
(* The fixpoint driver *)

\* Passes the driver may run; using them up without converging is fatal.
IterationCap == 3

\* computeExpressionDrop of the expression, by its kind; the base class
\* keeps the statement.
computeExpressionDrop(expression, statement, trace_collection) ==
    IF expression.kind = "EXPRESSION_BUILTIN_EXEC" THEN
        ExpressionBuiltinExec_computeExpressionDrop(expression, statement, trace_collection)
    ELSE IF expression.kind = "EXPRESSION_BUILTIN_EXECFILE" THEN
        ExpressionBuiltinExecfile_computeExpressionDrop(expression, statement,
                                                        trace_collection)
    ELSE IF expression.kind = "EXPRESSION_RAISE_EXCEPTION" THEN
        ExpressionRaiseException_computeExpressionDrop(expression, statement,
                                                       trace_collection)
    ELSE
        Return(trace_collection, expression, statement, NoneStr, NoneStr)

\* What the statement returns for the result of the drop: the statement
\* itself, or what the expression was demoted to.
StatementExpressionOnly_dropped(self, dropped) ==
    IF dropped.outcome # "returned" THEN
        Raise(dropped.tc, self, dropped.outcome)
    ELSE IF dropped.node = self THEN
        Return(dropped.tc, self, self, NoneStr, NoneStr)
    ELSE
        Return(dropped.tc, [self EXCEPT !.expression = dropped.self],
               dropped.node, dropped.tags, dropped.desc)

\* The statement of one expression: the expression is computed, then told
\* that its value is not used.
StatementExpressionOnly_computeStatement(self, trace_collection) ==
    StatementExpressionOnly_dropped(self,
        computeExpressionDrop(self.expression, self,
                              onExpression(trace_collection, self.expression)))

\* The compute operation of a statement, by its kind; a node that is no
\* statement has no computeStatement.
onStatement(trace_collection, statement) ==
    IF statement.kind \in RaiseKinds THEN
        StatementRaiseException_computeStatement(statement, trace_collection)
    ELSE IF statement.kind = "STATEMENT_RERAISE_EXCEPTION" THEN
        StatementReraiseException_computeStatement(statement, trace_collection)
    ELSE IF statement.kind = "STATEMENT_EXEC" THEN
        StatementExec_computeStatement(statement, trace_collection)
    ELSE IF statement.kind = "STATEMENT_LOCALS_DICT_SYNC" THEN
        StatementLocalsDictSync_computeStatement(statement, trace_collection)
    ELSE IF statement.kind = "STATEMENT_EXPRESSION_ONLY" THEN
        StatementExpressionOnly_computeStatement(statement, trace_collection)
    ELSE
        Raise(trace_collection, statement, "AttributeError")

\* StatementRaiseExceptionMixin.willRaiseAnyException
StatementRaiseExceptionMixin_willRaiseAnyException_Never(self) == FALSE

StatementRaiseExceptionMixin_willRaiseAnyException(self) == TRUE

\* willRaiseAnyException() of a node standing in a statement sequence.
Statement_willRaiseAnyException(statement) ==
    IF statement.kind \in RaiseKinds \cup {"STATEMENT_RERAISE_EXCEPTION"} THEN
        StatementRaiseExceptionMixin_willRaiseAnyException(statement)
    ELSE IF statement.kind = "STATEMENT_EXPRESSION_ONLY" THEN
        willRaiseAnyException(statement.expression)
    ELSE
        willRaiseAnyException(statement)

\* A node a compute call created: its constructor made it the parent of
\* the children it was given; the splice makes the root its parent.
Created(n, id) ==
    [f \in DOMAIN n \cup {"id", "parent"} |->
        IF f = "id" THEN id
        ELSE IF f = "parent" THEN 0
        ELSE IF f \in ChildSlots /\ n[f] # None THEN setattr(n[f], "parent", id)
        ELSE n[f]]

\* The statements a returned node stands for in the sequence.
ReplacementStatements(new_node) ==
    IF new_node = None THEN <<>>
    ELSE IF new_node.kind = "STATEMENTS_SEQUENCE" THEN new_node.statements
    ELSE <<new_node>>

\* The replacement as it is put into the root sequence; created counts the
\* nodes made before.
Spliced(new_node, created) ==
    LET statements == ReplacementStatements(new_node) IN
    [i \in 1..Len(statements) |->
        IF hasattr(statements[i], "id")
        THEN setattr(statements[i], "parent", 0)
        ELSE Created(statements[i], 0 - (created + i))]

\* A node taken out of the tree, with the reason.
Detached(n, why) == [node |-> n, why |-> why]

\* A fresh trace collection knows nothing of what the last pass learned.
Driver_freshTrace_CarriedOver(last) == TraceCollection(last)

Driver_freshTrace(last) == TraceCollection([v \in Variables |-> "unknown"])

\* What the traversal has done so far: the statements put into the new
\* sequence, the trace collection, the changes made, the nodes taken out,
\* and whether it goes on.
Traversal(out, tc, changed, gone, created, outcome, stopped) ==
    [out |-> out, tc |-> tc, changes |-> changed, detached |-> gone,
     nextId |-> created, outcome |-> outcome, stopped |-> stopped]

\* The traversal after statement i was computed with the result r: the
\* returned node is spliced in, the replaced node is unlinked, and the
\* statements after one that will raise are removed and unlinked.
Driver_visit(statements, i, acc, r) ==
    IF r.outcome # "returned" THEN
        Traversal(acc.out \o SubSeq(statements, i, Len(statements)), r.tc,
                  acc.changes, acc.detached, acc.nextId, r.outcome, TRUE)
    ELSE
    LET changed == r.node # r.self
        placed == IF changed THEN Spliced(r.node, acc.nextId) ELSE <<r.self>>
        gone == IF changed
                THEN {Detached(finalize(r.self),
                               IF r.node = None THEN "deleted" ELSE "replaced")}
                ELSE {}
        aborts == /\ placed # <<>>
                  /\ Statement_willRaiseAnyException(placed[Len(placed)])
                  /\ i < Len(statements)
        dead == IF aborts
                THEN { Detached(finalize(statements[j]), "dead")
                       : j \in (i + 1)..Len(statements) }
                ELSE {}
    IN  Traversal(acc.out \o placed, r.tc,
                  acc.changes + (IF changed THEN 1 ELSE 0) + (IF aborts THEN 1 ELSE 0),
                  acc.detached \cup gone \cup dead,
                  acc.nextId + (IF changed THEN Len(placed) ELSE 0),
                  "returned", aborts)

\* One traversal from statement i on: the statement is computed, the result
\* is spliced in, and the traversal goes on from there.
RECURSIVE Driver_traverse(_, _, _)
Driver_traverse(statements, i, acc) ==
    IF i > Len(statements) \/ acc.stopped THEN acc
    ELSE CHOOSE done \in
            { Driver_traverse(statements, i + 1, visited) :
                visited \in { Driver_visit(statements, i, acc, r) :
                                r \in { onStatement(acc.tc, statements[i]) } } } : TRUE

\* What the driver does after a traversal that was its count-th.
Driver_decide_Uncapped(outcome, changed, count) ==
    IF outcome # "returned" THEN "crashed"
    ELSE IF changed = 0 THEN "converged"
    ELSE "running"

Driver_decide(outcome, changed, count) ==
    IF outcome # "returned" THEN "crashed"
    ELSE IF changed = 0 THEN "converged"
    ELSE IF count >= IterationCap THEN "fatal"
    ELSE "running"

InitDriver ==
    /\ node = None
    /\ ctor = NoCtor
    /\ result = NoResult
    /\ events = <<>>
    /\ knowledge \in [Variables -> TraceKinds]
    /\ before = None
    /\ tree \in BuiltTrees
    /\ status = "running"
    /\ passes = 0
    /\ changes = 0
    /\ run = 1
    /\ fixpoint = <<>>
    /\ detached = {}
    /\ nextId = 0
    /\ CacheUnused
    /\ HelpersUnused

\* One full traversal of the tree.
Driver_pass ==
    \E done \in { Driver_traverse(tree, 1,
                       Traversal(<<>>, Driver_freshTrace(knowledge), 0, detached,
                                 nextId, "returned", FALSE)) } :
        /\ status = "running"
        /\ tree' = done.out
        /\ passes' = passes + 1
        /\ changes' = done.changes
        /\ detached' = done.detached
        /\ nextId' = done.nextId
        /\ knowledge' = done.tc.knowledge
        /\ status' = Driver_decide(done.outcome, done.changes, passes + 1)
        /\ UNCHANGED <<node, ctor, result, events, before, run, fixpoint>>
        /\ UNCHANGED <<cvars, hvars>>

\* The driver is run again on the tree it converged to.
Driver_rerun ==
    /\ status = "converged"
    /\ run = 1
    /\ run' = 2
    /\ fixpoint' = tree
    /\ status' = "running"
    /\ passes' = 0
    /\ changes' = 0
    /\ UNCHANGED <<node, ctor, result, events, knowledge, before, tree, detached, nextId>>
    /\ UNCHANGED <<cvars, hvars>>

NextDriver ==
    \/ Driver_pass
    \/ Driver_rerun

\* The driver is a synchronous loop: it keeps taking its next step.
SpecDriver == InitDriver /\ [][NextDriver]_vars /\ WF_vars(NextDriver)

----------------------------------------------------------------------------
(* Properties *)

Present(expressions) == SelectSeq(expressions, LAMBDA e : e # None)

\* The children of a raise statement, in the order type, value, trace, cause.
RaiseChildren(n) ==
    <<n.exception_type, n.exception_value, n.exception_trace, n.exception_cause>>

\* The children of an exec statement, in the order source, globals, locals.
ExecChildren(n) == <<n.source, n.globals_arg, n.locals_arg>>

WillRaise(e) == e # None /\ willRaiseAnyException(e)

AnyWillRaise(children) == \E i \in 1..Len(children) : WillRaise(children[i])

\* Index of the first child that unconditionally raises.
FirstRaising(children) ==
    CHOOSE i \in 1..Len(children) :
        /\ WillRaise(children[i])
        /\ \A j \in 1..(i - 1) : ~WillRaise(children[j])

\* The present children up to and including the first raising one; all the
\* present children when none raises.
EvaluatedPrefix(children) ==
    IF AnyWillRaise(children)
    THEN Present(SubSeq(children, 1, FirstRaising(children)))
    ELSE Present(children)

\* The expressions of the side-effect-only statements of a replacement.
ReplacementExpressions(n) ==
    IF n.kind = "STATEMENT_EXPRESSION_ONLY" THEN <<n.expression>>
    ELSE IF n.kind = "STATEMENTS_SEQUENCE"
         THEN [i \in 1..Len(n.statements) |-> n.statements[i].expression]
         ELSE <<>>

IsSideEffectOnly(n) ==
    \/ n.kind = "STATEMENT_EXPRESSION_ONLY"
    \/ /\ n.kind = "STATEMENTS_SEQUENCE"
       /\ \A i \in 1..Len(n.statements) :
            n.statements[i].kind = "STATEMENT_EXPRESSION_ONLY"

EventsOf(op) == SelectSeq(events, LAMBDA e : e.op = op)

\* The expressions passed to onExpression by the latest call, in call order.
ExpressionsComputed ==
    LET evs == EventsOf("onExpression") IN [i \in 1..Len(evs) |-> evs[i].expression]

ExitRecorded ==
    \E i \in 1..Len(events) :
        events[i].op = "onExceptionRaiseExit" /\ events[i].exception = BaseException

Unchanged == result.node = node /\ result.tags = NoneStr /\ result.desc = NoneStr

Deleted == result.node = None /\ result.tags # NoneStr /\ result.desc # NoneStr

RaiseComputed ==
    /\ node.kind \in RaiseKinds
    /\ result.call = "computeStatement"

ExecComputed ==
    /\ node.kind = "STATEMENT_EXEC"
    /\ result.call = "computeStatement"

SyncComputed ==
    /\ node.kind = "STATEMENT_LOCALS_DICT_SYNC"
    /\ result.call = "computeStatement"

ExecDropComputed ==
    /\ node.kind = "EXPRESSION_BUILTIN_EXEC"
    /\ result.call = "computeExpressionDrop"

\* C1: when a child of a raise statement is the first to unconditionally
\* raise, the replacement holds, as side-effect-only statements, exactly the
\* present children from type up to and including that child, in order.
C1_ReplacementIsEvaluatedPrefix ==
    (RaiseComputed /\ AnyWillRaise(RaiseChildren(node))) =>
        /\ result.tags # NoneStr
        /\ IsSideEffectOnly(result.node)
        /\ ReplacementExpressions(result.node) = EvaluatedPrefix(RaiseChildren(node))

\* C2: the raise statement passes its children to onExpression in the order
\* type, value, trace, cause, and none after the first one that raises.
C2_RaiseEvaluationOrder ==
    RaiseComputed => ExpressionsComputed = EvaluatedPrefix(RaiseChildren(node))

C2_Witness ==
    /\ RaiseComputed
    /\ WillRaise(node.exception_value)
    /\ node.exception_trace # None
    /\ node.exception_cause # None
    /\ ExpressionsComputed = <<node.exception_type, node.exception_value>>

\* C3: a raise statement none of whose children unconditionally raises
\* records an exception exit with BaseException and is returned itself with
\* no change tag and no description.
C3_RaiseUnchangedRecordsExit ==
    (RaiseComputed /\ ~AnyWillRaise(RaiseChildren(node))) =>
        ExitRecorded /\ Unchanged

C3_Witness ==
    /\ RaiseComputed
    /\ ~AnyWillRaise(RaiseChildren(node))
    /\ node.exception_value # None
    /\ node.exception_cause # None
    /\ ExitRecorded
    /\ result.node = node

\* The position of the first onLocalsUsage query among the events.
FirstQuery ==
    CHOOSE i \in 1..Len(events) :
        /\ events[i].op = "onLocalsUsage"
        /\ \A j \in 1..(i - 1) : events[j].op # "onLocalsUsage"

QueryMade == \E i \in 1..Len(events) : events[i].op = "onLocalsUsage"

\* C4: under a provider that is not the module, when the first
\* onLocalsUsage query returns a record, removeAllKnowledge is called after
\* it and before the second query, which sees no knowledge of any variable,
\* and the node itself is returned with no change tag.
C4_SyncClearsBeforeReseeding ==
    (SyncComputed /\ ~isCompiledPythonModule(node.provider)
        /\ QueryMade /\ events[FirstQuery].usage # {}) =>
        /\ Len(events) = FirstQuery + 2
        /\ events[FirstQuery + 1].op = "removeAllKnowledge"
        /\ events[FirstQuery + 2].op = "onLocalsUsage"
        /\ \A u \in events[FirstQuery + 2].usage : u[2] = "unknown"
        /\ \A v \in Variables : knowledge[v] = "unknown"
        /\ Unchanged

C4_Witness ==
    /\ SyncComputed
    /\ node.provider = "EXPRESSION_FUNCTION_BODY"
    /\ QueryMade
    /\ \E u \in events[FirstQuery].usage : u[2] = "assigned"
    /\ Len(events) = FirstQuery + 2
    /\ events[FirstQuery + 2].usage # {}
    /\ result.node = node

\* C5 as stated: under the module provider the sync statement is always
\* deleted, whatever its locals argument.
C5_ModuleSyncAlwaysDeleted ==
    (SyncComputed /\ isCompiledPythonModule(node.provider)) => Deleted

\* C5: under the module provider a sync statement whose locals argument
\* does not unconditionally raise is deleted, in every trace state, and no
\* onLocalsUsage query is made.
C5_ModuleSyncDeletedUnlessChildRaises ==
    (SyncComputed /\ node.provider = "COMPILED_PYTHON_MODULE"
        /\ ~WillRaise(node.locals_arg)) =>
        Deleted /\ ~QueryMade

C5_Witness ==
    /\ SyncComputed
    /\ node.provider = "COMPILED_PYTHON_MODULE"
    /\ ~WillRaise(node.locals_arg)
    /\ node.locals_scope # {}
    /\ \E v \in node.locals_scope : knowledge[v] = "assigned"
    /\ result.node = None
    /\ result.tags = "new_statements"

\* C6: under a provider that is not the module, a sync statement whose
\* onLocalsUsage query returns the empty set is deleted, and the call leaves
\* the knowledge of the trace collection as it was.
C6_EmptyUsageSyncDeleted ==
    [][ (/\ Call_StatementLocalsDictSync_computeStatement
         /\ ~isCompiledPythonModule(node.provider)
         /\ \E i \in 1..Len(events') :
                events'[i].op = "onLocalsUsage" /\ events'[i].usage = {})
        => (/\ result'.node = None
            /\ result'.tags # NoneStr
            /\ result'.desc # NoneStr
            /\ \A i \in 1..Len(events') : events'[i].op # "removeAllKnowledge"
            /\ knowledge' = knowledge) ]_vars

C6_Witness ==
    /\ SyncComputed
    /\ node.provider = "EXPRESSION_FUNCTION_BODY"
    /\ QueryMade
    /\ events[FirstQuery].usage = {}
    /\ result.node = None
    /\ result.tags = "new_statements"
    /\ \E v \in Variables : knowledge[v] = "assigned"

\* C7: dropping an unused exec expression returns an exec statement with
\* the same source, globals and locals and a change tag when in_early_closure
\* is true, and the enclosing statement with no change tag when it is false.
C7_ExecDropByEarlyClosure ==
    ExecDropComputed =>
        /\ result.outcome = "returned"
        /\ IF ctor.flag
           THEN /\ result.node.kind = "STATEMENT_EXEC"
                /\ result.node.source = ctor.args[1]
                /\ result.node.globals_arg = convertNoneConstantToNone(ctor.args[2])
                /\ result.node.locals_arg = convertNoneConstantToNone(ctor.args[3])
                /\ result.tags # NoneStr
           ELSE /\ result.node = EnclosingStatement(node)
                /\ result.tags = NoneStr

\* An argument left out of the constructor call where a constant None was given.
Omitted(argument) ==
    IF argument # None /\ argument.kind = "EXPRESSION_CONSTANT_NONE_REF"
    THEN None ELSE argument

\* The exec statement constructed with the constant None arguments left out.
ExecWithNoneOmitted ==
    StatementExec(ctor.args[1], Omitted(ctor.args[2]), Omitted(ctor.args[3]))

\* C8: an exec statement constructed with a constant None for globals or
\* locals has that child absent, and the node, the result of computeStatement
\* and the recorded trace events are those of the exec statement constructed
\* with these arguments left out.
C8_ExecNoneConstantIsAbsent ==
    (ctor.cls = "STATEMENT_EXEC") =>
        /\ (ctor.args[2].kind = "EXPRESSION_CONSTANT_NONE_REF" => node.globals_arg = None)
        /\ (ctor.args[3].kind = "EXPRESSION_CONSTANT_NONE_REF" => node.locals_arg = None)
        /\ node = ExecWithNoneOmitted
        /\ ExecComputed =>
            LET r == StatementExec_computeStatement(ExecWithNoneOmitted,
                                                    TraceCollection(knowledge))
            IN  /\ result = Result("computeStatement", r)
                /\ events = r.tc.events

C8_Witness ==
    /\ ExecComputed
    /\ ctor.args[2].kind = "EXPRESSION_CONSTANT_NONE_REF"
    /\ ctor.args[3].kind = "EXPRESSION_CONSTANT_NONE_REF"
    /\ node.globals_arg = None
    /\ node.locals_arg = None
    /\ ExpressionsComputed = <<node.source>>

\* C9: the exec statement computes source, globals, locals in this order,
\* none after the first that unconditionally raises, and is then replaced by
\* the side-effect-only statements of the children computed so far.
C9_ExecTruncatesLikeRaise ==
    ExecComputed =>
        /\ ExpressionsComputed = EvaluatedPrefix(ExecChildren(node))
        /\ AnyWillRaise(ExecChildren(node)) =>
            /\ result.tags # NoneStr
            /\ IsSideEffectOnly(result.node)
            /\ ReplacementExpressions(result.node) = EvaluatedPrefix(ExecChildren(node))

\* C10: an exec statement none of whose children unconditionally raises
\* records an exception exit with BaseException after its children and is
\* returned itself unchanged, for a constant string source and any other.
C10_ExecUnchangedRecordsExit ==
    (ExecComputed /\ ~AnyWillRaise(ExecChildren(node))) =>
        /\ Len(events) > 0
        /\ events[Len(events)].op = "onExceptionRaiseExit"
        /\ events[Len(events)].exception = BaseException
        /\ Len(EventsOf("onExceptionRaiseExit")) =
              1 + Cardinality({i \in 1..3 :
                    /\ ExecChildren(node)[i] # None
                    /\ mayRaiseException(ExecChildren(node)[i], BaseException)})
        /\ Unchanged

C10_Witness ==
    /\ ExecComputed
    /\ getStrValue(node.source) # NoneStr
    /\ node.globals_arg # None
    /\ ~AnyWillRaise(ExecChildren(node))
    /\ EventsOf("onExceptionRaiseExit") # <<>>
    /\ result.node = node

\* C15: a raise statement that is constructed has value absent whenever
\* type is absent and trace absent whenever value is absent; a constructor
\* call that breaks either condition fails an assertion and makes no node.
C15_RaiseConstructionValidated ==
    (ctor.cls \in RaiseKinds) =>
        LET type == ctor.args[1]
            value == ctor.args[2]
            trace == ctor.args[3]
            valid == (type = None => value = None) /\ (value = None => trace = None)
        IN  /\ ctor.outcome = "constructed" =>
                /\ node.kind = ctor.cls
                /\ RaiseChildren(node) = ctor.args
                /\ (node.exception_type = None => node.exception_value = None)
                /\ (node.exception_value = None => node.exception_trace = None)
            /\ ~valid => (ctor.outcome = "AssertionError" /\ node = None)

C15_Witness ==
    /\ ctor.cls = "STATEMENT_RAISE_EXCEPTION"
    /\ ctor.args[1] # None
    /\ ctor.args[2] = None
    /\ ctor.args[3] # None
    /\ ctor.outcome = "AssertionError"
    /\ node = None

ReraiseComputed ==
    /\ node.kind = "STATEMENT_RERAISE_EXCEPTION"
    /\ result.call = "computeStatement"

\* C16: every computeStatement call on a re-raise statement records exactly
\* one exception exit with BaseException and returns the node itself with no
\* change tag; the effect is the same for each further call.
C16_ReraiseRecordsOneExit ==
    [][ Call_StatementReraiseException_computeStatement =>
            /\ events' = <<Event("onExceptionRaiseExit", None, BaseException, {})>>
            /\ result'.outcome = "returned"
            /\ result'.node = node
            /\ result'.tags = NoneStr
            /\ result'.desc = NoneStr
            /\ node' = node
            /\ knowledge' = knowledge ]_vars

C16_Witness ==
    /\ ReraiseComputed
    /\ Len(EventsOf("onExceptionRaiseExit")) = 1
    /\ result.node = node
    /\ \E v \in Variables : knowledge[v] = "assigned"

RaiseExprDropComputed ==
    /\ ctor.cls = "EXPRESSION_RAISE_EXCEPTION"
    /\ result.call = "computeExpressionDrop"

\* C17: dropping a raise expression returns an implicit raise statement
\* whose type and value are the expression's type and value, with trace and
\* cause absent, a change tag and a description, and the expression has its
\* parent link cleared.
C17_RaiseExprDemoted ==
    RaiseExprDropComputed =>
        /\ result.outcome = "returned"
        /\ result.node.kind = "STATEMENT_RAISE_EXCEPTION_IMPLICIT"
        /\ RaiseChildren(result.node) = <<ctor.args[1], ctor.args[2], None, None>>
        /\ result.tags # NoneStr
        /\ result.desc # NoneStr
        /\ "parent" \notin DOMAIN node
        /\ node.exception_type = ctor.args[1]
        /\ node.exception_value = ctor.args[2]

C17_Witness ==
    /\ RaiseExprDropComputed
    /\ result.node.kind = "STATEMENT_RAISE_EXCEPTION_IMPLICIT"
    /\ result.node.exception_value = ctor.args[2]
    /\ result.tags = "new_raise"
    /\ "parent" \notin DOMAIN node

\* C18: when the type child unconditionally raises, the raise statement is
\* replaced by the single side-effect-only statement of the type expression,
\* and value, trace and cause are neither computed nor in the replacement.
C18_RaisingTypeReplacesRaise ==
    (RaiseComputed /\ WillRaise(node.exception_type)) =>
        /\ result.node = StatementExpressionOnly(node.exception_type)
        /\ result.tags = "new_raise"
        /\ result.desc # NoneStr
        /\ ExpressionsComputed = <<node.exception_type>>

C18_Witness ==
    /\ RaiseComputed
    /\ WillRaise(node.exception_type)
    /\ node.exception_value # None
    /\ node.exception_trace # None
    /\ node.exception_cause # None
    /\ result.node.kind = "STATEMENT_EXPRESSION_ONLY"

\* C19: the raise statement records its own exception exit only after every
\* present child was passed to onExpression.
C19_RaiseExitAfterChildren ==
    RaiseComputed =>
        \A i, j \in 1..Len(events) :
            (events[i].op = "onExceptionRaiseExit" /\ events[j].op = "onExpression")
                => j < i

ExecfileComputed ==
    /\ node.kind = "EXPRESSION_BUILTIN_EXECFILE"
    /\ result.call = "computeExpression"

\* C20: every computeExpression call on an execfile expression records an
\* exception exit with BaseException and returns the node unchanged, whatever
\* its source, globals, locals and in_class_body.
C20_ExecfileRecordsExit ==
    ExecfileComputed =>
        /\ events = <<Event("onExceptionRaiseExit", None, BaseException, {})>>
        /\ result.outcome = "returned"
        /\ Unchanged
        /\ node.in_class_body = ctor.flag
        /\ <<node.source_code, node.globals_arg, node.locals_arg>> = ctor.args

C20_Witness ==
    /\ ExecfileComputed
    /\ node.in_class_body
    /\ node.globals_arg # None
    /\ node.locals_arg = None
    /\ ExitRecorded
    /\ result.node = node

----------------------------------------------------------------------------
(* Properties of the fixpoint driver *)

AlwaysRaisingKinds == RaiseKinds \cup {"STATEMENT_RERAISE_EXCEPTION"}

\* The statement is guaranteed to raise: a raise statement of one of the
\* three kinds, or a raise expression standing as a statement.
GuaranteedToRaise(statement) ==
    \/ statement.kind \in AlwaysRaisingKinds
    \/ statement.kind = "EXPRESSION_RAISE_EXCEPTION"
    \/ /\ statement.kind = "STATEMENT_EXPRESSION_ONLY"
       /\ statement.expression.kind = "EXPRESSION_RAISE_EXCEPTION"

C12_SecondRunChangesNothing ==
    (run = 2 /\ passes > 0) =>
        /\ status = "converged"
        /\ passes = 1
        /\ changes = 0
        /\ tree = fixpoint

\* The second run has finished on a tree that the first run had rewritten
\* and that still holds a locals sync statement with its recorded traces.
C12_Witness ==
    /\ run = 2
    /\ passes = 1
    /\ status = "converged"
    /\ nextId > 0
    /\ \E k \in 1..Len(tree) :
          /\ tree[k].kind = "STATEMENT_LOCALS_DICT_SYNC"
          /\ ~tree[k].previous_traces.isNone

\* What holds of the driver in every state: it has converged only after a
\* pass without changes, it is in the fatal state only with the cap used
\* up by passes that all changed something, and it goes on only while the
\* cap is not used up and every pass so far changed something.
DriverStopsRightly ==
    /\ status = "converged" => (passes >= 1 /\ changes = 0)
    /\ status = "fatal" => (changes > 0 /\ passes >= IterationCap)
    /\ status = "running" => (passes < IterationCap /\ (passes > 0 => changes > 0))

RECURSIVE Family(_, _, _)
Family(n, holder, slot) ==
    { [id |-> n.id,
       linked |-> hasattr(n, "parent"),
       parent |-> IF hasattr(n, "parent") THEN n.parent ELSE 0,
       holder |-> holder,
       slot |-> slot] }
    \cup UNION { Family(n[f], n.id, f)
                 : f \in { g \in ChildSlots \cap DOMAIN n : n[g] # None } }

\* The nodes of the tree below the root.
LiveNodes == UNION { Family(tree[k], 0, ToString(k)) : k \in 1..Len(tree) }

\* C14: every node of the tree below the root has its parent link set to
\* the one node that holds it, no node is held twice, and every node that
\* was replaced or removed has no parent link: the statement taken out of
\* the sequence, and the expression that was demoted to a statement.
C14_ExclusiveOwnership ==
    /\ \A a \in LiveNodes : a.linked /\ a.parent = a.holder
    /\ \A a, b \in LiveNodes : a.id = b.id => a = b
    /\ \A d \in detached :
          /\ ~hasattr(d.node, "parent")
          /\ \A a \in LiveNodes : a.id # d.node.id
          /\ (d.why = "replaced" /\ d.node.kind = "STATEMENT_EXPRESSION_ONLY")
                => ~hasattr(d.node.expression, "parent")

\* An execfile call was demoted to an exec statement that now holds its
\* source, and a raise statement was truncated to its raising type.
C14_Witness ==
    /\ \E d \in detached :
          /\ d.why = "replaced"
          /\ d.node.kind = "STATEMENT_EXPRESSION_ONLY"
          /\ d.node.expression.kind = "EXPRESSION_BUILTIN_EXECFILE"
    /\ \E d \in detached :
          /\ d.why = "replaced"
          /\ d.node.kind \in RaiseKinds
    /\ \E k \in 1..Len(tree) :
          /\ tree[k].kind = "STATEMENT_EXEC"
          /\ tree[k].id < 0
          /\ tree[k].source.parent = tree[k].id

----------------------------------------------------------------------------
(* Properties of the remaining dynamic-execution and exception nodes *)

ExecfileDropComputed ==
    /\ ctor.cls = "EXPRESSION_BUILTIN_EXECFILE"
    /\ result.call = "computeExpressionDrop"

\* C21 as stated: dropping an execfile call in a class body returns an exec
\* statement with the same source, globals and locals children and clears
\* the parent link of the expression; outside a class body the enclosing
\* statement is returned with no change tag.
C21_ExecfileDropKeepsChildren ==
    ExecfileDropComputed =>
        /\ result.outcome = "returned"
        /\ ctor.flag =>
              /\ result.node.kind = "STATEMENT_EXEC"
              /\ ExecChildren(result.node) = ctor.args
              /\ ~hasattr(node, "parent")
        /\ ~ctor.flag =>
              /\ result.node = EnclosingStatement(node)
              /\ result.tags = NoneStr
              /\ result.desc = NoneStr
              /\ node = before

\* C21, amended: as above, except that a globals or locals child that is
\* the None constant is absent in the exec statement.
C21_ExecfileDropNormalisesNone ==
    ExecfileDropComputed =>
        /\ result.outcome = "returned"
        /\ ctor.flag =>
              /\ result.node.kind = "STATEMENT_EXEC"
              /\ ExecChildren(result.node) =
                    << ctor.args[1],
                       IF ctor.args[2].kind = "EXPRESSION_CONSTANT_NONE_REF"
                       THEN None ELSE ctor.args[2],
                       IF ctor.args[3].kind = "EXPRESSION_CONSTANT_NONE_REF"
                       THEN None ELSE ctor.args[3] >>
              /\ result.tags # NoneStr
              /\ result.desc # NoneStr
              /\ ~hasattr(node, "parent")
        /\ ~ctor.flag =>
              /\ result.node = EnclosingStatement(node)
              /\ result.tags = NoneStr
              /\ result.desc = NoneStr
              /\ node = before

\* An execfile call in a class body whose globals child is the None constant
\* was dropped: the exec statement has no globals child.
C21_Witness ==
    /\ ExecfileDropComputed
    /\ ctor.flag
    /\ ctor.args[2].kind = "EXPRESSION_CONSTANT_NONE_REF"
    /\ result.node.kind = "STATEMENT_EXEC"
    /\ result.node.globals_arg = None
    /\ result.node.source = ctor.args[1]
    /\ ~hasattr(node, "parent")

CompileComputed ==
    /\ ctor.cls = "EXPRESSION_BUILTIN_COMPILE"
    /\ result.call = "computeExpression"

\* C22: every computeExpression call on a compile call records exactly one
\* exception exit, with BaseException, and nothing else, and returns the
\* node itself unchanged, whichever optional children are given and also
\* when the source is a constant.
C22_CompileRecordsOneExit ==
    CompileComputed =>
        /\ result.outcome = "returned"
        /\ events = <<Event("onExceptionRaiseExit", None, BaseException, {})>>
        /\ result.node = node
        /\ result.tags = NoneStr
        /\ result.desc = NoneStr
        /\ node = before

\* A compile call with a constant source and without its optional children
\* was computed.
C22_Witness ==
    /\ CompileComputed
    /\ node.source.kind = "EXPRESSION_CONSTANT_STR_REF"
    /\ node.flags = None
    /\ node.dont_inherit = None
    /\ node.optimize = None
    /\ Len(EventsOf("onExceptionRaiseExit")) = 1

EvalComputed ==
    /\ ctor.cls = "EXPRESSION_BUILTIN_EVAL"
    /\ result.call = "computeExpression"

\* C23: computeExpression on an eval call returns the node itself with no
\* change tag for every source and every globals and locals child, and does
\* nothing to the trace: no exception exit, no knowledge removed.
C23_EvalIsOpaque ==
    [][ Call_ExpressionBuiltinEval_computeExpression =>
            /\ result'.outcome = "returned"
            /\ result'.node = node
            /\ result'.tags = NoneStr
            /\ result'.desc = NoneStr
            /\ events' = <<>>
            /\ knowledge' = knowledge
            /\ node' = node ]_vars

\* An eval call with a constant source was computed while a variable had a
\* known trace.
C23_Witness ==
    /\ EvalComputed
    /\ node.source_code.kind = "EXPRESSION_CONSTANT_STR_REF"
    /\ result.node = node
    /\ events = <<>>
    /\ \E v \in Variables : knowledge[v] = "assigned"

\* At least one of the expressions may raise: a variable reference may, a
\* constant cannot.
SomeMayRaise(expressions) ==
    \E i \in 1..Len(expressions) : expressions[i].kind = "EXPRESSION_VARIABLE_REF"

\* C24: mayRaiseException(c) of an exception making call is true exactly
\* when one of its args may raise c, hence false without args, for every
\* exception class c; and computeExpression returns the node unchanged and
\* records no exception exit.
C24_MakeExceptionMayRaiseByArgs ==
    (ctor.cls = "EXPRESSION_BUILTIN_MAKE_EXCEPTION" /\ result.call # NoneStr) =>
        /\ result.outcome = "returned"
        /\ node = before
        /\ events = <<>>
        /\ result.call = "mayRaiseException" =>
              /\ result.of \in ExceptionClasses
              /\ result.value = Bool(SomeMayRaise(node.args))
              /\ (node.args = <<>> => result.value = "False")
        /\ result.call = "computeExpression" =>
              /\ result.node = node
              /\ result.tags = NoneStr
              /\ result.desc = NoneStr

\* The query answered True for an exception making call whose second
\* argument alone may raise.
C24_Witness ==
    /\ ctor.cls = "EXPRESSION_BUILTIN_MAKE_EXCEPTION"
    /\ result.call = "mayRaiseException"
    /\ result.of = "ValueError"
    /\ Len(node.args) = 2
    /\ node.args[1].kind = "EXPRESSION_CONSTANT_STR_REF"
    /\ node.args[2].kind = "EXPRESSION_VARIABLE_REF"
    /\ result.value = "True"

\* C30: mayRaiseException(c) of an import error making call depends on the
\* args alone: it is false when no argument may raise c, also when the name
\* or the path child is given and may raise c.
C30_ImportErrorMayRaiseByArgsOnly ==
    (/\ ctor.cls = "EXPRESSION_BUILTIN_MAKE_EXCEPTION_IMPORT_ERROR"
     /\ result.call = "mayRaiseException") =>
        /\ result.value = Bool(SomeMayRaise(node.args))
        /\ node = before

\* The query answered False although the name and the path child are given
\* and may raise.
C30_Witness ==
    /\ ctor.cls = "EXPRESSION_BUILTIN_MAKE_EXCEPTION_IMPORT_ERROR"
    /\ result.call = "mayRaiseException"
    /\ node.name # None
    /\ node.path # None
    /\ mayRaiseException(node.name, result.of)
    /\ mayRaiseException(node.path, result.of)
    /\ node.args # <<>>
    /\ result.value = "False"

ComputeCalls == {"computeStatement", "computeExpression", "computeExpressionDrop"}

\* The latest compute call returned what it was asked to compute: the node
\* itself, or for computeExpressionDrop the enclosing statement.
ReturnedSame ==
    IF result.call = "computeExpressionDrop"
    THEN result.node = EnclosingStatement(before)
    ELSE result.node = node

\* C25: a compute call that returns another node, or None, returns a change
\* tag and a rationale that are both given and not empty; one that returns
\* what it was asked to compute returns None for both.
C25_ChangesAreTagged ==
    (result.call \in ComputeCalls /\ result.outcome = "returned") =>
        /\ ~ReturnedSame =>
              /\ result.tags \notin {NoneStr, ""}
              /\ result.desc \notin {NoneStr, ""}
        /\ ReturnedSame =>
              /\ result.tags = NoneStr
              /\ result.desc = NoneStr

\* A locals sync statement was deleted, with a tag and a rationale.
C25_Witness ==
    /\ SyncComputed
    /\ result.outcome = "returned"
    /\ result.node = None
    /\ result.tags = "new_statements"
    /\ result.desc = "Removed sync back to locals without locals."

SameExcept(names) ==
    /\ DOMAIN node \cup names = DOMAIN before \cup names
    /\ \A f \in DOMAIN node \ names : node[f] = before[f]

OtherRaiseKind(kind) ==
    IF kind = "STATEMENT_RAISE_EXCEPTION"
    THEN "STATEMENT_RAISE_EXCEPTION_IMPLICIT"
    ELSE "STATEMENT_RAISE_EXCEPTION"

\* The raise statement of the other class with the same children.
Twin(n) == [n EXCEPT !.kind = OtherRaiseKind(n.kind)]

\* The result of the computeStatement just made compared with that of the
\* twin under the same trace: same events, tag and rationale, and the same
\* replacement, each statement being returned itself when it is kept.
TwinComputesAlike(r) ==
    /\ r.outcome = result.outcome
    /\ r.tc.events = events
    /\ r.tc.knowledge = knowledge
    /\ r.tags = result.tags
    /\ r.desc = result.desc
    /\ IF result.node = node THEN r.node = Twin(node) ELSE r.node = result.node

\* C27: a StatementRaiseExceptionImplicit and a StatementRaiseException
\* with the same children under the same trace compute the same
\* replacement, tag and event sequence, answer willRaiseAnyException() and
\* needsFrame() alike, and differ only in kind and nice name.
C27_ImplicitBehavesAsExplicit ==
    /\ RaiseComputed =>
        /\ TwinComputesAlike(StatementRaiseException_computeStatement(
                                 Twin(before), TraceCollection(knowledge)))
        /\ StatementRaiseExceptionMixin_willRaiseAnyException(Twin(node))
              = StatementRaiseExceptionMixin_willRaiseAnyException(node)
        /\ StatementRaiseException_needsFrame(Twin(node))
              = StatementRaiseException_needsFrame(node)
        /\ StatementRaiseException_getStatementNiceName(Twin(node))
              # StatementRaiseException_getStatementNiceName(node)
        /\ \A f \in DOMAIN node \ {"kind"} : Twin(node)[f] = node[f]
    /\ (node.kind \in RaiseKinds /\ result.call = "needsFrame") =>
        /\ result.value = "True"
        /\ result.value = Bool(StatementRaiseException_needsFrame(Twin(node)))

C27_Witness ==
    /\ RaiseComputed
    /\ node.kind = "STATEMENT_RAISE_EXCEPTION_IMPLICIT"
    /\ WillRaise(node.exception_value)
    /\ result.tags = "new_raise"
    /\ ExitRecorded
    /\ StatementRaiseException_computeStatement(Twin(node), TraceCollection(knowledge)).node
         = result.node

RemoveAllKnowledgeCalled ==
    \E i \in 1..Len(events) : events[i].op = "removeAllKnowledge"

\* The locals argument was replaced while the children were computed.
LocalsArgReplaced == WillRaise(node.locals_arg)

\* C28: the sync statement calls removeAllKnowledge() exactly when its
\* locals argument was not replaced, the provider is not the module and the
\* first onLocalsUsage query returned a record; it does not call it when
\* the statement is deleted or replaced, and under the module provider it
\* makes no onLocalsUsage query.
C28_SyncClearsOnlyWhenKept ==
    SyncComputed =>
        /\ RemoveAllKnowledgeCalled <=>
               /\ ~LocalsArgReplaced
               /\ ~isCompiledPythonModule(node.provider)
               /\ QueryMade
               /\ events[FirstQuery].usage # {}
        /\ (~LocalsArgReplaced /\ ~isCompiledPythonModule(node.provider)) => QueryMade
        /\ result.node # node => ~RemoveAllKnowledgeCalled
        /\ isCompiledPythonModule(node.provider) => ~QueryMade

C28_Witness ==
    /\ SyncComputed
    /\ node.provider = "EXPRESSION_FUNCTION_BODY"
    /\ ~LocalsArgReplaced
    /\ QueryMade
    /\ events[FirstQuery].usage # {}
    /\ RemoveAllKnowledgeCalled
    /\ \E u \in events[FirstQuery].usage : u[2] = "assigned"
    /\ \A v \in Variables : knowledge[v] = "unknown"
    /\ result.node = node

IsExit(e) == e.op = "onExceptionRaiseExit" /\ e.exception = BaseException

\* C29: when the exec statement is replaced because a child unconditionally
\* raises, an exception exit has been recorded, and an exit stands in the
\* trace only right after the computation of a child that reports
\* mayRaiseException(BaseException), one after each such child.
C29_ExecTruncationRecordsExit ==
    (ExecComputed /\ AnyWillRaise(ExecChildren(node))) =>
        /\ result.tags = "new_raise"
        /\ ExitRecorded
        /\ \A i \in 1..Len(events) :
              events[i].op = "onExceptionRaiseExit" =>
                 /\ IsExit(events[i])
                 /\ i > 1
                 /\ events[i - 1].op = "onExpression"
                 /\ mayRaiseException(events[i - 1].expression, BaseException)
        /\ \A i \in 1..Len(events) :
              (events[i].op = "onExpression"
                 /\ mayRaiseException(events[i].expression, BaseException)) =>
                 i < Len(events) /\ IsExit(events[i + 1])

C29_Witness ==
    /\ ExecComputed
    /\ ~mayRaiseException(node.source, BaseException)
    /\ WillRaise(node.globals_arg)
    /\ node.locals_arg # None
    /\ result.tags = "new_raise"
    /\ Len(events) = 3
    /\ events[1].expression = node.source
    /\ events[2].expression = node.globals_arg
    /\ IsExit(events[3])

\* C31: no raise statement of either class has its type absent: a
\* constructor call with an absent type fails an assertion and makes no
\* node, whatever value, trace and cause are, and the statement made by
\* dropping a raise expression has the expression's type, which is present.
C31_RaiseTypeNeverAbsent ==
    /\ (ctor.cls \in RaiseKinds /\ ctor.args[1] = None) =>
            (ctor.outcome = "AssertionError" /\ node = None)
    /\ node.kind \in RaiseKinds => node.exception_type # None
    /\ result.node.kind \in RaiseKinds => result.node.exception_type # None

C31_Witness ==
    /\ ctor.cls = "STATEMENT_RAISE_EXCEPTION_IMPLICIT"
    /\ ctor.args[1] = None
    /\ ctor.args[2] = None
    /\ ctor.args[3] = None
    /\ ctor.args[4] # None
    /\ ctor.outcome = "AssertionError"
    /\ node = None

----------------------------------------------------------------------------
----------------------------------------------------------------------------
(* BytecodeCaching: the cache of imported module usage attempts. *)

\* Number of writes to the cache in one behaviour.
MaxWrites == 2

\* Number of changes of the environment in one behaviour.
MaxEnvChanges == 1

\* Number of usage attempts of one module.
MaxUsed == 2

\* The modules compiled: two modules of the package "pkg" whose names
\* differ in case only.
ModuleNames == {"pkg.mod", "pkg.Mod"}

asString(module_name) == module_name

getPackageName(full_name) ==
    IF full_name \in {"pkg.mod", "pkg.Mod"} THEN "pkg" ELSE NoneStr

\* A source code without imports and one with three: from "x" absolutely
\* and relatively on line 1, "other.y" on line 2.
NoImports == "pass"

Imports == "from x import a; from .x import a\\nimport other.y"

SourceCodes == {NoImports, Imports}

\* The search path: "site", with the packages "pkg" and "other" in it. The
\* files that come and go are these; the package directories and their
\* "__init__.py" stay.
AllFiles ==
    { [path |-> "site", filename |-> "x.py"],
      [path |-> "site", filename |-> "notes.txt"],
      [path |-> "site/pkg", filename |-> "x.py"],
      [path |-> "site/other", filename |-> "y.py"] }

Directories == {"site", "site/pkg", "site/other"}

isdir(path) == path \in Directories

Permanent(path) == IF path = "site" THEN {"other", "pkg"} ELSE {"__init__.py"}

\* listDir(path): the entries of the directory, sorted by name.
ListingOrder == <<"__init__.py", "notes.txt", "other", "pkg", "x.py", "y.py">>

listDir(environment, path) ==
    LET entries == Permanent(path) \cup
                   { f.filename : f \in { g \in environment.listing : g.path = path } }
        names == SelectSeq(ListingOrder, LAMBDA n : n \in entries)
    IN  [i \in 1..Len(names) |-> [fullname |-> <<path, names[i]>>, filename |-> names[i]]]

isPackageDir(fullname) == fullname[1] = "site" /\ fullname[2] \in {"other", "pkg"}

getAllModuleSuffixes == {".py", ".so"}

\* filename.endswith(suffixes)
endswith(filename, suffixes) ==
    \/ ".py" \in suffixes /\ filename \in {"__init__.py", "x.py", "y.py"}
    \/ ".txt" \in suffixes /\ filename = "notes.txt"

\* getPackageSearchPath(None) and getPackageSearchPath(package_name)
getPackageSearchPath(package_name) ==
    IF package_name = NoneStr THEN <<"site">> ELSE <<"site/" \o package_name>>

\* Hash: the digest stands for the values it was updated with, in order;
\* two digests are equal exactly when those values are.
Hash == <<>>

updateFromValues(hash_value, values) == hash_value \o values

asHexDigest(hash_value) == [md5 |-> hash_value]

getStringHash(value) == asHexDigest(updateFromValues(Hash, <<value>>))

\* Lines 159-161: the names of the package directories and module files of
\* one directory go into the hash.
RECURSIVE getModuleImportableFilesHash_files(_, _, _)
getModuleImportableFilesHash_files(entries, i, hash_value) ==
    IF i > Len(entries) THEN hash_value
    ELSE IF isPackageDir(entries[i].fullname)
            \/ endswith(entries[i].filename, getAllModuleSuffixes)
    THEN getModuleImportableFilesHash_files(entries, i + 1,
             updateFromValues(hash_value, <<entries[i].filename, "\\0">>))
    ELSE getModuleImportableFilesHash_files(entries, i + 1, hash_value)

\* Lines 155-161: "for path in paths:"
RECURSIVE getModuleImportableFilesHash_paths(_, _, _, _)
getModuleImportableFilesHash_paths(environment, paths, i, hash_value) ==
    IF i > Len(paths) THEN hash_value
    ELSE IF ~isdir(paths[i])
    THEN getModuleImportableFilesHash_paths(environment, paths, i + 1, hash_value)
    ELSE getModuleImportableFilesHash_paths(environment, paths, i + 1,
             getModuleImportableFilesHash_files(listDir(environment, paths[i]), 1,
                                                hash_value))

\* Plugins.getCacheContributionValues(full_name)
getCacheContributionValues(environment, full_name) == <<environment.contribution>>

getModuleImportableFilesHash(environment, full_name) ==
    LET package_name == getPackageName(full_name)
        paths == IF package_name # NoneStr
                 THEN getPackageSearchPath(NoneStr) \o getPackageSearchPath(package_name)
                 ELSE getPackageSearchPath(NoneStr)
        files == getModuleImportableFilesHash_paths(environment, paths, 1, Hash)
        plugins == updateFromValues(files,
                                    getCacheContributionValues(environment, full_name))
    IN  asHexDigest(updateFromValues(plugins, <<environment.version>>))

makeCacheName_NoSource(environment, module_name, source_code) ==
    <<asString(module_name), getModuleImportableFilesHash(environment, module_name),
      getStringHash("")>>

\* module_name + "@" + module_importables_hash + "@" + source code hash:
\* the three parts, none of which holds an "@".
makeCacheName(environment, module_name, source_code) ==
    <<asString(module_name), getModuleImportableFilesHash(environment, module_name),
      getStringHash(source_code)>>

lower(name) == IF name = "pkg.Mod" THEN "pkg.mod" ELSE name

\* The file of the cache directory that a name leads to: a file system that
\* folds case takes names that differ in case only for the same file.
getCacheFilename(environment, cache_name, extension) ==
    <<IF environment.folds THEN lower(cache_name[1]) ELSE cache_name[1],
      cache_name[2], cache_name[3], extension>>

exists(files, filename) == filename \in DOMAIN files

\* "# Bump this is format is changed ..." _cache_format_version = 3
cache_format_version == 3

\* Source references: a file and a line in it.
SourceRef(filename, line) == [filename |-> filename, line |-> line]

atLineNumber(source_ref, line) == [source_ref EXCEPT !.line = line]

getLineNumber(source_ref) == source_ref.line

ModuleUsageAttempt(module_name, filename, finding, level, source_ref) ==
    [module_name |-> module_name, filename |-> filename, finding |-> finding,
     level |-> level, source_ref |-> source_ref]

\* locateModule(module_name, parent_package=None, level=0): where the module
\* is found on the search path as it is now.
locateModule(environment, module_name) ==
    LET file == IF module_name = "x"
                THEN [path |-> "site", filename |-> "x.py"]
                ELSE [path |-> "site/other", filename |-> "y.py"]
    IN  IF file \in environment.listing
        THEN [module_name |-> module_name,
              filename |-> file.path \o "/" \o file.filename,
              finding |-> "absolute"]
        ELSE [module_name |-> module_name, filename |-> NoneStr,
              finding |-> "not-found"]

\* OrderedSet: a sequence without repetitions, in the order of first adding.
OrderedSet == <<>>

OrderedSet_add(attempts, element) ==
    IF \E i \in 1..Len(attempts) : attempts[i] = element THEN attempts
    ELSE Append(attempts, element)

\* Json files: a file holds the contents written, or is not loadable.
NoContents == [file_format_version |-> 0, module_name |-> NoneStr, modules_used |-> <<>>]

writeJsonToFilename(files, filename, contents) ==
    [f \in DOMAIN files \cup {filename} |->
        IF f = filename THEN [loadable |-> TRUE, contents |-> contents] ELSE files[f]]

\* loadJsonFromFilename gives None for a file that cannot be loaded.
loadJsonFromFilename(files, filename) ==
    IF files[filename].loadable
    THEN [isNone |-> FALSE, contents |-> files[filename].contents]
    ELSE [isNone |-> TRUE, contents |-> NoContents]

\* Lines 126-129: module.asDict(), with the line number in place of the
\* source reference.
writeImportedModulesNamesToCache_module(module) ==
    [module_name |-> module.module_name, filename |-> module.filename,
     finding |-> module.finding, level |-> module.level,
     source_ref_line |-> getLineNumber(module.source_ref)]

\* The files of the cache directory after the call.
writeImportedModulesNamesToCache(files, environment, module_name, source_code, used_modules) ==
    LET cache_name == makeCacheName(environment, module_name, source_code)
        cache_filename == getCacheFilename(environment, cache_name, "json")
        data == [file_format_version |-> cache_format_version,
                 module_name |-> asString(module_name),
                 modules_used |->
                     [i \in 1..Len(used_modules) |->
                         writeImportedModulesNamesToCache_module(used_modules[i])]]
    IN  writeJsonToFilename(files, cache_filename, data)

\* What a look-up returns: None, or the ordered set of usage attempts.
Miss == [isNone |-> TRUE, items |-> <<>>]

Found(items) == [isNone |-> FALSE, items |-> items]

\* Lines 107-117: the usage attempt made from a stored module.
getCachedImportedModuleUsageAttempts_attempt(located, module, source_ref) ==
    ModuleUsageAttempt(located.module_name, located.filename, module.finding, 0,
                       atLineNumber(source_ref, module.source_ref_line))

RECURSIVE getCachedImportedModuleUsageAttempts_modules_Skipping(_, _, _, _, _)
RECURSIVE getCachedImportedModuleUsageAttempts_modules(_, _, _, _, _)
getCachedImportedModuleUsageAttempts_modules_Skipping(environment, modules_used, i, attempts, source_ref) ==
    IF i > Len(modules_used) THEN Found(attempts)
    ELSE
    LET module == modules_used[i]
        located == locateModule(environment, module.module_name)
    IN  IF located.finding # module.finding THEN
            getCachedImportedModuleUsageAttempts_modules(
                environment, modules_used, i + 1, attempts, source_ref)
        ELSE
            getCachedImportedModuleUsageAttempts_modules(
                environment, modules_used, i + 1,
                OrderedSet_add(attempts,
                    getCachedImportedModuleUsageAttempts_attempt(located, module,
                                                                 source_ref)),
                source_ref)

\* Lines 96-119: "for module in data["modules_used"]:"
getCachedImportedModuleUsageAttempts_modules(environment, modules_used, i, attempts, source_ref) ==
    IF i > Len(modules_used) THEN Found(attempts)
    ELSE
    LET module == modules_used[i]
        located == locateModule(environment, module.module_name)
    IN  IF located.finding # module.finding THEN
            Miss
        ELSE
            getCachedImportedModuleUsageAttempts_modules(
                environment, modules_used, i + 1,
                OrderedSet_add(attempts,
                    getCachedImportedModuleUsageAttempts_attempt(located, module,
                                                                 source_ref)),
                source_ref)

\* "if data["module_name"] != module_name:"
getCachedImportedModuleUsageAttempts_otherModule(data, module_name) ==
    data.module_name # asString(module_name)

getCachedImportedModuleUsageAttempts(files, environment, module_name, source_code, source_ref) ==
    LET cache_name == makeCacheName(environment, module_name, source_code)
        cache_filename == getCacheFilename(environment, cache_name, "json")
    IN
    IF ~exists(files, cache_filename) THEN Miss
    ELSE
    LET data == loadJsonFromFilename(files, cache_filename) IN
    IF data.isNone THEN Miss
    ELSE IF data.contents.file_format_version # cache_format_version THEN Miss
    ELSE IF getCachedImportedModuleUsageAttempts_otherModule(data.contents, module_name)
    THEN Miss
    ELSE getCachedImportedModuleUsageAttempts_modules(
             environment, data.contents.modules_used, 1, OrderedSet, source_ref)

\* "return result is not None"
hasCachedImportedModuleUsageAttempts(files, environment, module_name, source_code, source_ref) ==
    ~getCachedImportedModuleUsageAttempts(files, environment, module_name,
                                          source_code, source_ref).isNone

----------------------------------------------------------------------------
(* The cache as a state machine: the program writes and looks up, and the  *)
(* environment changes between the calls.                                  *)

Versions == {"1.2", "1.2.1"}

Contributions == {"", "anti-bloat"}

\* The source file of a module and the reference to its first line.
ModuleSourceRef(module_name) == SourceRef(module_name \o ".py", 1)

\* The usage attempts that scanning a source code can give in an
\* environment: an import at level 0 or 1 of a module, on a line, with the
\* finding of the environment.
UsageAttempts(environment, module_name, source_code) ==
    IF source_code = NoImports THEN {}
    ELSE { ModuleUsageAttempt(import[1], locateModule(environment, import[1]).filename,
                              locateModule(environment, import[1]).finding, import[2],
                              atLineNumber(ModuleSourceRef(module_name), import[3])) :
             import \in { <<"x", 0, 1>>, <<"x", 1, 1>>, <<"other.y", 0, 2>> } }

\* The ordered sets of at most MaxUsed of these usage attempts.
UsedModules(environment, module_name, source_code) ==
    { used \in UNION { [1..n -> UsageAttempts(environment, module_name, source_code)] :
                          n \in 0..MaxUsed } :
        \A i, j \in 1..Len(used) : i # j => used[i] # used[j] }

Asked(call, module_name, source_code, r) ==
    [call |-> call, module_name |-> module_name, source_code |-> source_code,
     isNone |-> r.isNone, items |-> r.items]

InitCache ==
    /\ node = None
    /\ ctor = NoCtor
    /\ result = NoResult
    /\ events = <<>>
    /\ knowledge = [v \in Variables |-> "unknown"]
    /\ before = None
    /\ tree = <<>>
    /\ status = "idle"
    /\ passes = 0
    /\ changes = 0
    /\ run = 1
    /\ fixpoint = <<>>
    /\ detached = {}
    /\ nextId = 0
    /\ cache = <<>>
    /\ env \in { [listing |-> AllFiles, contribution |-> "", version |-> "1.2",
                  folds |-> folds] : folds \in BOOLEAN }
    /\ answer = NoAnswer
    /\ history = {}
    /\ fresh = NoWrite
    /\ epoch = 0
    /\ writes = 0
    /\ HelpersUnused

nvars == <<node, ctor, result, events, knowledge, before>>

Call_writeImportedModulesNamesToCache ==
    \E module_name \in ModuleNames, source_code \in SourceCodes :
        \E used_modules \in UsedModules(env, module_name, source_code) :
            /\ writes < MaxWrites
            /\ writes' = writes + 1
            /\ cache' = writeImportedModulesNamesToCache(cache, env, module_name,
                                                         source_code, used_modules)
            /\ history' = history \cup
                              { [module_name |-> module_name,
                                 source_code |-> getStringHash(source_code),
                                 importables |->
                                     getModuleImportableFilesHash(env, module_name)] }
            /\ fresh' = [module_name |-> module_name, source_code |-> source_code,
                         used |-> used_modules]
            /\ answer' = Asked("writeImportedModulesNamesToCache", module_name,
                               source_code, Miss)
            /\ UNCHANGED <<env, epoch>>
            /\ UNCHANGED <<nvars, dvars, hvars>>

Call_getCachedImportedModuleUsageAttempts ==
    \E module_name \in ModuleNames, source_code \in SourceCodes :
        /\ answer' = Asked("getCachedImportedModuleUsageAttempts", module_name,
                           source_code,
                           getCachedImportedModuleUsageAttempts(
                               cache, env, module_name, source_code,
                               ModuleSourceRef(module_name)))
        /\ UNCHANGED <<cache, env, history, fresh, epoch, writes>>
        /\ UNCHANGED <<nvars, dvars, hvars>>

\* A change of the environment between two calls.
Changed(new_env, new_cache) ==
    /\ epoch < MaxEnvChanges
    /\ epoch' = epoch + 1
    /\ env' = new_env
    /\ cache' = new_cache
    /\ answer' = NoAnswer
    /\ fresh' = NoWrite
    /\ UNCHANGED <<history, writes>>
    /\ UNCHANGED <<nvars, dvars, hvars>>

\* A file appears on the search path or goes from it.
Env_listing ==
    \E file \in AllFiles :
        Changed([env EXCEPT !.listing = IF file \in @ THEN @ \ {file} ELSE @ \cup {file}],
                cache)

\* The plugins contribute other values to the cache key.
Env_plugins ==
    \E contribution \in Contributions \ {env.contribution} :
        Changed([env EXCEPT !.contribution = contribution], cache)

\* Another version of the compiler is installed.
Env_version ==
    \E version \in Versions \ {env.version} :
        Changed([env EXCEPT !.version = version], cache)

\* A file of the cache directory is cut short or overwritten with other text.
Env_damage ==
    \E filename \in DOMAIN cache :
        /\ cache[filename].loadable
        /\ Changed(env, [cache EXCEPT ![filename].loadable = FALSE])

\* A file of the cache directory comes from a build with the format before.
Env_olderFormat ==
    \E filename \in DOMAIN cache :
        /\ cache[filename].loadable
        /\ cache[filename].contents.file_format_version = cache_format_version
        /\ Changed(env,
                   [cache EXCEPT ![filename].contents.file_format_version =
                                     cache_format_version - 1])

NextCache ==
    \/ Call_writeImportedModulesNamesToCache
    \/ Call_getCachedImportedModuleUsageAttempts
    \/ Env_listing
    \/ Env_plugins
    \/ Env_version
    \/ Env_damage
    \/ Env_olderFormat

SpecCache == InitCache /\ [][NextCache]_vars

----------------------------------------------------------------------------
(* Properties of the cache *)

GetAnswered == answer.call = "getCachedImportedModuleUsageAttempts"

\* The file that the look-up just made went to.
AskedFile ==
    getCacheFilename(env, makeCacheName(env, answer.module_name, answer.source_code),
                     "json")

FileThere == AskedFile \in DOMAIN cache

Stored == cache[AskedFile].contents

\* Locating the i-th recorded module again gives another finding.
FindingChanged(i) ==
    locateModule(env, Stored.modules_used[i].module_name).finding
        # Stored.modules_used[i].finding

\* The usage attempt stands for what was recorded: module, finding, line.
StandsFor(attempt, module) ==
    /\ attempt.module_name = module.module_name
    /\ attempt.finding = module.finding
    /\ getLineNumber(attempt.source_ref) = module.source_ref_line

\* C32: a look-up returns None when the cache file does not exist, cannot
\* be loaded, has another format version, holds another module name, or
\* when locating a recorded module again gives another finding; what it
\* returns otherwise holds a usage attempt for every recorded module.
C32_MissOnAnyMismatch ==
    GetAnswered =>
        /\ ~FileThere => answer.isNone
        /\ FileThere =>
            /\ ~cache[AskedFile].loadable => answer.isNone
            /\ Stored.file_format_version # cache_format_version => answer.isNone
            /\ Stored.module_name # answer.module_name => answer.isNone
            /\ (\E i \in 1..Len(Stored.modules_used) : FindingChanged(i))
                  => answer.isNone
            /\ ~answer.isNone =>
                  \A i \in 1..Len(Stored.modules_used) :
                     \E j \in 1..Len(answer.items) :
                        StandsFor(answer.items[j], Stored.modules_used[i])

C32_Witness ==
    /\ GetAnswered
    /\ FileThere
    /\ cache[AskedFile].loadable
    /\ Stored.file_format_version = cache_format_version
    /\ Stored.module_name = answer.module_name
    /\ Len(Stored.modules_used) = 2
    /\ ~FindingChanged(1)
    /\ FindingChanged(2)
    /\ answer.isNone

\* The look-up just made asked for what the latest write wrote, and nothing
\* has changed since that write.
AskedForFresh ==
    /\ GetAnswered
    /\ fresh # NoWrite
    /\ answer.module_name = fresh.module_name
    /\ answer.source_code = fresh.source_code

\* C33: after a write and with nothing changed, the look-up for the same
\* module and source code returns one usage attempt for each element of
\* used, in the same order, with its module name, finding and line number;
\* for an empty used it returns the empty set, not None, and
\* hasCachedImportedModuleUsageAttempts is True.
C33_RoundTrip ==
    AskedForFresh =>
        /\ ~answer.isNone
        /\ Len(answer.items) = Len(fresh.used)
        /\ \A i \in 1..Len(answer.items) :
              i <= Len(fresh.used) =>
                 StandsFor(answer.items[i],
                           writeImportedModulesNamesToCache_module(fresh.used[i]))
        /\ hasCachedImportedModuleUsageAttempts(cache, env, answer.module_name,
                                                answer.source_code,
                                                ModuleSourceRef(answer.module_name))

\* The key of the look-up just made, as the environment is now.
AskedKey ==
    [module_name |-> answer.module_name,
     source_code |-> getStringHash(answer.source_code),
     importables |-> getModuleImportableFilesHash(env, answer.module_name)]

\* C34: a look-up returns a result other than None only if a write was
\* made before for the same module name, source code hash and importable
\* files hash; and after a write under a key the look-up under that key
\* finds what that write recorded, whatever was written under it before.
C34_HitOnlyForWrittenKey ==
    /\ (GetAnswered /\ ~answer.isNone) => AskedKey \in history
    /\ AskedForFresh =>
        /\ ~answer.isNone
        /\ \A j \in 1..Len(answer.items) :
              \E i \in 1..Len(fresh.used) :
                 StandsFor(answer.items[j],
                           writeImportedModulesNamesToCache_module(fresh.used[i]))
        /\ \A i \in 1..Len(fresh.used) :
              \E j \in 1..Len(answer.items) :
                 StandsFor(answer.items[j],
                           writeImportedModulesNamesToCache_module(fresh.used[i]))

\* Two writes went to one key, and the look-up finds the later one.
C34_Witness ==
    /\ AskedForFresh
    /\ writes = 2
    /\ Cardinality(history) = 1
    /\ Cardinality(DOMAIN cache) = 1
    /\ ~answer.isNone
    /\ Len(answer.items) = 2
    /\ AskedKey \in history

----------------------------------------------------------------------------
(* HelperDefinitions: in-place helpers derived from binary helpers *)

\* How many helpers a set handed to the derivation holds at most.
MaxHelpers == 2

\* A helper name is the sequence of its characters.
BINARY_OPERATION == <<"B","I","N","A","R","Y","_","O","P","E","R","A","T","I","O","N">>

OBJECT == <<"O","B","J","E","C","T">>

NBOOL == <<"N","B","O","O","L">>

CLONG == <<"C","L","O","N","G">>

LONG == <<"L","O","N","G">>

ADD == <<"A","D","D">>

MULT == <<"M","U","L","T">>

INPLACE == <<"_","I","N","P","L","A","C","E">>

\* The target code of an in-place helper: None, which is no string.
NoCode == <<NoneStr>>

OpCodes == {ADD, MULT}

TypeNames == {LONG, CLONG}

\* "BINARY_OPERATION_%s_%s_%s_%s" % (op_code, target, left, right)
BinaryHelperName(op_code, target, left, right) == BINARY_OPERATION \o <<"_">> \o op_code \o <<"_">> \o target \o <<"_">> \o left \o <<"_">> \o right

makeTypeOpsNbool(op_code, type_name) == { BinaryHelperName(op_code, NBOOL, type_name, type_name), BinaryHelperName(op_code, NBOOL, OBJECT, type_name), BinaryHelperName(op_code, NBOOL, type_name, OBJECT) }

makeTypeOps(op_code, type_name, include_nbool) ==
    { BinaryHelperName(op_code, OBJECT, type_name, type_name),
      BinaryHelperName(op_code, OBJECT, OBJECT, type_name),
      BinaryHelperName(op_code, OBJECT, type_name, OBJECT) }
    \cup (IF include_nbool THEN makeTypeOpsNbool(op_code, type_name) ELSE {})

makeFriendOps(op_code, include_nbool, type_names) ==
    UNION { { BinaryHelperName(op_code, OBJECT, type_name1, type_name2),
              BinaryHelperName(op_code, OBJECT, type_name2, type_name1) }
            \cup (IF include_nbool
                  THEN { BinaryHelperName(op_code, NBOOL, type_name1, type_name2),
                         BinaryHelperName(op_code, NBOOL, type_name2, type_name1) }
                  ELSE {})
            : <<type_name1, type_name2>> \in
                  { pair \in type_names \X type_names : pair[1] # pair[2] } }

makeDefaultOps(op_code, include_nbool) ==
    { BinaryHelperName(op_code, OBJECT, OBJECT, OBJECT) }
    \cup (IF include_nbool THEN { BinaryHelperName(op_code, NBOOL, OBJECT, OBJECT) } ELSE {})

\* The helpers that the sets of one operation are built from.
HelpersOf(op_code) ==
    UNION { makeTypeOps(op_code, type_name, TRUE) : type_name \in TypeNames }
    \cup makeFriendOps(op_code, TRUE, TypeNames)
    \cup makeDefaultOps(op_code, TRUE)

\* buildOrderedSet: the helpers in the order given, every one once.
buildOrderedSet(names, size) ==
    UNION { { s \in [1..k -> names] : \A i, j \in 1..k : i # j => s[i] # s[j] }
            : k \in 0..size }

\* A set of helpers is absent (None) or an ordered set.
NoSet == [isNone |-> TRUE, names |-> <<>>]

SetOf(names) == [isNone |-> FALSE, names |-> names]

\* Python subscript: positions count from zero.
item(sequence, index) == sequence[index + 1]

\* text.split(separator) for a separator of one character
RECURSIVE split_from(_, _, _, _, _)
split_from(text, separator, i, parts, word) ==
    IF i > Len(text) THEN Append(parts, word)
    ELSE IF text[i] = separator
         THEN split_from(text, separator, i + 1, Append(parts, word), <<>>)
         ELSE split_from(text, separator, i + 1, parts, Append(word, text[i]))

split(text, separator) == split_from(text, separator, 1, <<>>, <<>>)

\* Does text hold part from position i on.
holdsAt(text, part, i) ==
    /\ i + Len(part) - 1 <= Len(text)
    /\ SubSeq(text, i, i + Len(part) - 1) = part

\* part in text
in(part, text) == \E i \in 1..Len(text) : holdsAt(text, part, i)

\* text.replace(old, new): every occurrence, from the left, none overlapping
RECURSIVE replace_from(_, _, _, _)
replace_from(text, old, new, i) ==
    IF i > Len(text) THEN <<>>
    ELSE IF holdsAt(text, old, i) THEN new \o replace_from(text, old, new, i + Len(old))
         ELSE <<text[i]>> \o replace_from(text, old, new, i + 1)

replace(text, old, new) == replace_from(text, old, new, 1)

parseTypesFromHelper(helper_name) ==
    IF ~in(INPLACE, helper_name)
    THEN <<item(split(helper_name, "_"), 3),
           item(split(helper_name, "_"), 4),
           item(split(helper_name, "_"), 5)>>
    ELSE <<NoCode,
           item(split(helper_name, "_"), 3),
           item(split(helper_name, "_"), 4)>>

\* The two conditions of the generator expression.
deriveInplaceFromBinaryOperations_selected_AnyOperands(helper_name) == item(parseTypesFromHelper(helper_name), 0) = OBJECT
deriveInplaceFromBinaryOperations_selected(helper_name) ==
    /\ item(parseTypesFromHelper(helper_name), 0) = OBJECT
    /\ \A i \in 1..3 : parseTypesFromHelper(helper_name)[i] # CLONG

\* helper_name.replace(operation + "_OBJECT", operation) + "_INPLACE"
deriveInplaceFromBinaryOperations_name(helper_name, operation) == replace(helper_name, operation \o <<"_">> \o OBJECT, operation) \o INPLACE

RECURSIVE deriveInplaceFromBinaryOperations_names(_, _, _, _)
deriveInplaceFromBinaryOperations_names(names, operation, i, derived) ==
    IF i > Len(names) THEN derived
    ELSE deriveInplaceFromBinaryOperations_names(
             names, operation, i + 1,
             IF deriveInplaceFromBinaryOperations_selected(names[i])
             THEN OrderedSet_add(derived,
                      deriveInplaceFromBinaryOperations_name(names[i], operation))
             ELSE derived)

deriveInplaceFromBinaryOperations(operations_set) ==
    IF operations_set.isNone \/ operations_set.names = <<>> THEN NoSet
    ELSE SetOf(deriveInplaceFromBinaryOperations_names(
                   operations_set.names,
                   item(split(item(operations_set.names, 0), "_"), 2),
                   1, OrderedSet))

\* The sets the module hands to the derivation: none, or helpers of one
\* operation in some order.
OperationsSets ==
    {NoSet} \cup UNION { { SetOf(names) : names \in buildOrderedSet(HelpersOf(op_code), MaxHelpers) }
                         : op_code \in OpCodes }

InitHelpers ==
    /\ node = None
    /\ ctor = NoCtor
    /\ result = NoResult
    /\ events = <<>>
    /\ knowledge = [v \in Variables |-> "unknown"]
    /\ before = None
    /\ tree = <<>>
    /\ status = "idle"
    /\ passes = 0
    /\ changes = 0
    /\ run = 1
    /\ fixpoint = <<>>
    /\ detached = {}
    /\ nextId = 0
    /\ CacheUnused
    /\ helpers_set \in OperationsSets
    /\ inplace = NotDerived
    /\ parsed = NotParsed

Call_deriveInplaceFromBinaryOperations ==
    /\ ~inplace.called
    /\ inplace' = [called |-> TRUE,
                   isNone |-> deriveInplaceFromBinaryOperations(helpers_set).isNone,
                   names |-> deriveInplaceFromBinaryOperations(helpers_set).names]
    /\ UNCHANGED <<helpers_set, parsed>>
    /\ UNCHANGED <<nvars, dvars, cvars>>

Call_parseTypesFromHelper ==
    \E helper_name \in {helpers_set.names[i] : i \in 1..Len(helpers_set.names)}
                       \cup {inplace.names[i] : i \in 1..Len(inplace.names)} :
        /\ parsed' = [helper_name |-> helper_name,
                      types |-> parseTypesFromHelper(helper_name)]
        /\ UNCHANGED <<helpers_set, inplace>>
        /\ UNCHANGED <<nvars, dvars, cvars>>

NextHelpers ==
    \/ Call_deriveInplaceFromBinaryOperations
    \/ Call_parseTypesFromHelper

SpecHelpers == InitHelpers /\ [][NextHelpers]_vars

----------------------------------------------------------------------------
(* Properties of the helper definitions *)

TypeCodes == TypeNames \cup {OBJECT}

\* A binary helper that computes an object from operands that are no C long.
ObjectHelper(helper_name) ==
    \E op_code \in OpCodes, left, right \in TypeCodes \ {CLONG} :
        helper_name = BinaryHelperName(op_code, OBJECT, left, right)

\* The in-place helper of the same operation and operand types.
InplaceHelperName(op_code, left, right) == BINARY_OPERATION \o <<"_">> \o op_code \o <<"_">> \o left \o <<"_">> \o right \o INPLACE

\* C35: the derivation returns None for an empty or absent set; otherwise
\* it returns, in the order of the set, exactly one in-place helper name for
\* each binary helper with target type OBJECT and no CLONG operand, and
\* nothing else; the derived name parses to (None, left, right) where the
\* binary helper parses to (OBJECT, left, right).
C35_InplaceDerivedFromObjectHelpers ==
    inplace.called =>
        IF helpers_set.isNone \/ helpers_set.names = <<>> THEN inplace.isNone
        ELSE /\ ~inplace.isNone
             /\ Len(inplace.names) = Len(SelectSeq(helpers_set.names, ObjectHelper))
             /\ \A i \in 1..Len(inplace.names) :
                    \A op_code \in OpCodes, left, right \in TypeCodes :
                        SelectSeq(helpers_set.names, ObjectHelper)[i]
                            = BinaryHelperName(op_code, OBJECT, left, right)
                        => /\ inplace.names[i] = InplaceHelperName(op_code, left, right)
                           /\ parseTypesFromHelper(inplace.names[i])
                                  = <<NoCode, left, right>>
                           /\ parseTypesFromHelper(
                                  SelectSeq(helpers_set.names, ObjectHelper)[i])
                                  = <<OBJECT, left, right>>
             /\ parsed.helper_name \in {inplace.names[i] : i \in 1..Len(inplace.names)}
                    => /\ parsed.types[1] = NoCode
                       /\ \E i \in 1..Len(helpers_set.names) :
                              /\ parseTypesFromHelper(helpers_set.names[i])[1] = OBJECT
                              /\ parseTypesFromHelper(helpers_set.names[i])[2]
                                     = parsed.types[2]
                              /\ parseTypesFromHelper(helpers_set.names[i])[3]
                                     = parsed.types[3]

\* A set with a CLONG helper, an object helper and a truth value helper was
\* handed over, one name came back and it was parsed.
C35_Witness ==
    /\ inplace.called
    /\ ~helpers_set.isNone
    /\ Len(helpers_set.names) = MaxHelpers
    /\ \E i \in 1..Len(helpers_set.names) :
           helpers_set.names[i] = BinaryHelperName(MULT, OBJECT, LONG, CLONG)
    /\ \E i \in 1..Len(helpers_set.names) :
           helpers_set.names[i] = BinaryHelperName(MULT, OBJECT, OBJECT, LONG)
    /\ inplace.names = <<InplaceHelperName(MULT, OBJECT, LONG)>>
    /\ parsed.helper_name = InplaceHelperName(MULT, OBJECT, LONG)
    /\ parsed.types = <<NoCode, OBJECT, LONG>>

====
